---- MODULE Spec2Model ----
(***************************************************************************)
(* A model of the message relay of src/bot.py: the conversation store      *)
(* (class Chat), the delivery outbox (class Outbox) with its drainer       *)
(* (job_process_outbox), the two forwarding operations (forward_to_topic,  *)
(* forward_to_user), the inbound handlers (handle_user, handle_admin), the *)
(* operator commands and button callbacks that write the store, and the    *)
(* periodic jobs.                                                          *)
(*                                                                         *)
(* Time.  The code reads the wall clock (datetime.now()) and stores        *)
(* absolute timestamps.  The model keeps every timestamp relative to the   *)
(* current instant, in seconds: next_retry_at and snoozed_until hold the   *)
(* time still to wait (0: the instant has come), last_message_at and       *)
(* last_reply_at hold the age of the instant.  Advance(d) moves the clock  *)
(* by d seconds by shifting all of them.  NULL is the SQL NULL.            *)
(*                                                                         *)
(* Transport.  Every call of the Telegram client is fallible.  An action   *)
(* draws the result of each call it makes (TRUE: returned, FALSE: raised)  *)
(* from BOOLEAN; while channelUp holds every call returns.                 *)
(*                                                                         *)
(* Scope.  Storage calls do not fail, except in SpecStorage and, for the   *)
(* INSERT of save_topic_cache, in SpecTitles.  The thread names            *)
(* (update_topic and its cache) are followed in SpecTitles only; the       *)
(* messages log (log_msg) and the recording of sequences are not part of   *)
(* the state.  A message is identified by its arrival number; a text the   *)
(* bot sends itself has message_id 0.                                      *)
(*                                                                         *)
(* Observers.  attempts counts, per outbox row, the drainer's copy_message *)
(* calls by result; inbound_since counts, per user, the inbound messages   *)
(* handle_user delivered since the conversation last turned read or        *)
(* answered.  deletes records the delete_message calls and notices the    *)
(* bot's answers to /del; history lists the committed writes of the        *)
(* interleaved runs in commit order.  No action reads them.                *)
(*                                                                         *)
(* Interleaving.  A handler is one action, as the application handles one  *)
(* update at a time.  In SpecInterleave a run is cut at its await: tasks   *)
(* holds the runs suspended there, and a button press or another run may   *)
(* commit in between.                                                      *)
(*                                                                         *)
(* Specifications.  Spec is the relay with /read and /close; SpecOps has   *)
(* every operation that writes status, unread_count or is_archived;        *)
(* SpecOutbox lets the transport fail a row up to the retry ceiling;       *)
(* SpecLive adds the recovery of the channel and fairness of the drainer   *)
(* and the clock; SpecStorage is the relay in which the Chat call that     *)
(* follows a copy can raise; SpecFollowup has the operations on priority,  *)
(* snooze and follow-up over a horizon of days; SpecMapping fills          *)
(* sent_messages past the number of rows the code keeps per user;         *)
(* SpecDel adds /del and the button callbacks to the relay; SpecCrash lets *)
(* the drainer stop between a copy and its mark_sent; SpecBacklog starts   *)
(* from an outbox of more rows than one batch and runs the drainer on      *)
(* every tick; SpecUnread has the operations that decide the unread list;  *)
(* SpecInterleave interleaves the runs at their awaits; SpecArchive cuts   *)
(* job_archive at its awaits and lets the handlers run in between;         *)
(* SpecTitles has the handlers with their update_topic calls and restarts  *)
(* of the process; SpecRouting is the relay started with a thread for      *)
(* every user; SpecFrame has the commands and buttons that call            *)
(* set_priority, snooze, done_followup and archive, for two users.         *)
(***************************************************************************)
EXTENDS Integers, Sequences, FiniteSets, TLC

\* ------------------------------------------------------------ bounds
NumUsers == 2
MaxMsgs == 2
MaxTopics == 3
MaxOutbox == 2
MaxSends == 1
MaxDrainFails == 1
LiveOutbox == 1
StepHours == 6
HorizonSteps == 13
MapCalls == 102
MapOthers == 1
SeqLen == 2

\* --------------------------------------------------- program constants
SUPPORT_GROUP_ID == 0
FOLLOWUP_HOURS_NORMAL == 24
FOLLOWUP_HOURS_VIP == 12
ARCHIVE_AFTER_DAYS == 14
OUTBOX_INTERVAL_SECONDS == 30
BATCH_LIMIT == 20
MAX_RETRIES == 10
SENT_KEEP == 100
NULL == -1

Users == 1..NumUsers
delays == <<5, 15, 45, 120, 300, 900, 3600>>
Min(a, b) == IF a <= b THEN a ELSE b
Max(a, b) == IF a >= b THEN a ELSE b
\* An age at or past AgeCap is past every threshold the code compares it with.
AgeCap == ARCHIVE_AFTER_DAYS * 86400 + 1

VARIABLES
    chats,          \* table chats: user_id -> row (NoRow: no row for the user)
    outbox,         \* table outbox: the sequence of its rows, id = index
    sent_messages,  \* table sent_messages: the sequence of its rows, oldest first
    msgs,           \* every update handled so far, message_id = index
    group,          \* the copies that arrived in the support group, in order
    inbox,          \* what the bot delivered to users, in order
    nextTopic,      \* the thread id the next create_forum_topic returns
    pending_broadcast, \* PENDING_BROADCAST of the admin: the staged recipients
    channelUp,      \* TRUE: from now on no transport call fails
    attempts,       \* per outbox row: the drainer's copy_message calls, by result
    inbound_since,  \* per user: inbound messages handle_user delivered since the
                    \* conversation last turned read or answered
    deletes,        \* the delete_message calls made so far
    notices,        \* the bot's answers to /del in the support group, in order
    tasks,          \* the handler and job runs suspended at an await, with
                    \* their local variables
    history,        \* the writes to chats and outbox in the order they were
                    \* committed by the runs that tasks follows
    titles          \* per thread: the name the bot last applied to it, its
                    \* entry in TOPIC_NAME_CACHE and in table topic_cache

vars == <<chats, outbox, sent_messages, msgs, group, inbox, nextTopic,
          pending_broadcast, channelUp, attempts, inbound_since, deletes,
          notices, tasks, history, titles>>

\* What the relay, the drainer and the store commands leave alone.
side == <<deletes, notices, tasks, history, titles>>

\* ------------------------------------------------------------ class Chat
NoRow ==
    [exists |-> FALSE, topic_id |-> 0, status |-> "unread", priority |-> "normal",
     unread_count |-> 0, last_message_at |-> NULL, last_reply_at |-> NULL,
     is_archived |-> 0, snoozed_until |-> NULL, followup_stage |-> 0,
     followup_done |-> 0]

\* Chat.get
Chat_get(c, u) == c[u]

\* A lookup by thread that returns a user with a row whatever thread it has.
Chat_get_by_topic_any(c, t) ==
    IF \E u \in Users : c[u].exists
    THEN CHOOSE u \in Users : c[u].exists
    ELSE 0

\* Chat.get_by_topic: the user whose row holds the thread id, 0 when none does.
Chat_get_by_topic(c, t) ==
    IF \E u \in Users : c[u].exists /\ c[u].topic_id = t
    THEN CHOOSE u \in Users : c[u].exists /\ c[u].topic_id = t
    ELSE 0

\* Chat.create: INSERT ... ON CONFLICT(user_id) DO UPDATE.  The inserted row takes
\* the column defaults (status 'unread', unread_count 0, priority 'normal'); the
\* conflict branch sets unread_count=1 and leaves last_message_at alone.
Chat_create(c, u, t) ==
    IF c[u].exists
    THEN [c EXCEPT ![u] = [@ EXCEPT !.topic_id = t, !.is_archived = 0,
                                    !.status = "unread", !.unread_count = 1]]
    ELSE [c EXCEPT ![u] = [NoRow EXCEPT !.exists = TRUE, !.topic_id = t,
                                        !.last_message_at = 0]]

\* new_message that counts from 1 again and keeps a snooze.
Chat_new_message_restart(c, u) ==
    IF c[u].exists
    THEN [c EXCEPT ![u] = [@ EXCEPT !.status = "unread",
                                    !.unread_count = 1,
                                    !.last_message_at = 0,
                                    !.followup_stage = 0,
                                    !.followup_done = 0]]
    ELSE c

\* Chat.new_message
Chat_new_message(c, u) ==
    IF c[u].exists
    THEN [c EXCEPT ![u] = [@ EXCEPT !.status = "unread",
                                    !.unread_count = @ + 1,
                                    !.last_message_at = 0,
                                    !.followup_stage = 0,
                                    !.followup_done = 0,
                                    !.snoozed_until = NULL]]
    ELSE c

\* mark_answered that also clears the thread id of the row.
Chat_mark_answered_unthread(c, u) ==
    IF c[u].exists
    THEN [c EXCEPT ![u] = [@ EXCEPT !.status = "answered", !.unread_count = 0,
                                    !.last_reply_at = 0, !.followup_stage = 0,
                                    !.topic_id = 0]]
    ELSE c

\* Chat.mark_answered
Chat_mark_answered(c, u) ==
    IF c[u].exists
    THEN [c EXCEPT ![u] = [@ EXCEPT !.status = "answered", !.unread_count = 0,
                                    !.last_reply_at = 0, !.followup_stage = 0]]
    ELSE c

\* mark_read that sets status read whatever the status was.
Chat_mark_read_always(c, u) ==
    IF c[u].exists
    THEN [c EXCEPT ![u] = [@ EXCEPT !.status = "read", !.unread_count = 0]]
    ELSE c

\* mark_read that leaves unread_count as it is.
Chat_mark_read_keep_count(c, u) ==
    IF c[u].exists
    THEN [c EXCEPT ![u] = [@ EXCEPT !.status = IF @ = "unread" THEN "read" ELSE @]]
    ELSE c

\* Chat.mark_read
Chat_mark_read(c, u) ==
    IF c[u].exists
    THEN [c EXCEPT ![u] = [@ EXCEPT
             !.status = IF @ = "unread" THEN "read" ELSE @,
             !.unread_count = 0]]
    ELSE c

\* Chat.mark_unread
Chat_mark_unread(c, u) ==
    IF c[u].exists
    THEN [c EXCEPT ![u] = [@ EXCEPT
             !.status = "unread",
             !.unread_count = IF @ = 0 THEN 1 ELSE @]]
    ELSE c

\* set_priority that also ends a snooze.
Chat_set_priority_unsnooze(c, u, p) ==
    IF c[u].exists
    THEN [c EXCEPT ![u] = [@ EXCEPT !.priority = p, !.snoozed_until = NULL]]
    ELSE c

\* Chat.set_priority
Chat_set_priority(c, u, p) ==
    IF c[u].exists THEN [c EXCEPT ![u].priority = p] ELSE c

\* Chat.archive
Chat_archive(c, u) ==
    IF c[u].exists
    THEN [c EXCEPT ![u] = [@ EXCEPT !.is_archived = 1, !.status = "closed"]]
    ELSE c

\* Chat.snooze: snoozed_until = now + hours.
Chat_snooze(c, u, hours) ==
    IF c[u].exists THEN [c EXCEPT ![u].snoozed_until = hours * 3600] ELSE c

\* Chat.done_followup
Chat_done_followup(c, u) ==
    IF c[u].exists THEN [c EXCEPT ![u].followup_done = 1] ELSE c

\* ---------------------------------------------------------- class Outbox
\* Outbox.add: a pending row, retry_count 0, next_retry_at = now.
Outbox_add(ob, direction, from_chat_id, to_chat_id, message_id, topic_id) ==
    Append(ob, [direction |-> direction, from_chat_id |-> from_chat_id,
                to_chat_id |-> to_chat_id, message_id |-> message_id,
                topic_id |-> topic_id, retry_count |-> 0, next_retry_at |-> 0,
                status |-> "pending"])

\* The ids of the outbox rows, ascending: created_at grows with the id.
OutboxIds(ob) == [i \in 1..Len(ob) |-> i]

\* A selection that passes over rows that have failed before.
Outbox_is_due_first_only(ob, i) ==
    ob[i].status = "pending" /\ ob[i].next_retry_at <= 0 /\ ob[i].retry_count = 0

Outbox_is_due(ob, i) == ob[i].status = "pending" /\ ob[i].next_retry_at <= 0

\* A selection that cuts the table to its 20 oldest rows before it looks for
\* the due ones.
Outbox_get_pending_limit_first(ob) ==
    SelectSeq(SubSeq(OutboxIds(ob), 1, Min(Len(ob), BATCH_LIMIT)),
              LAMBDA i : Outbox_is_due(ob, i))

\* A selection without LIMIT.
Outbox_get_pending_all(ob) ==
    SelectSeq(OutboxIds(ob), LAMBDA i : Outbox_is_due(ob, i))

\* Outbox.get_pending: WHERE status='pending' AND next_retry_at <= now
\* ORDER BY created_at ASC LIMIT 20; the result is the sequence of row ids.
Outbox_get_pending(ob) ==
    LET due == SelectSeq(OutboxIds(ob), LAMBDA i : Outbox_is_due(ob, i))
    IN  SubSeq(due, 1, Min(Len(due), BATCH_LIMIT))

\* mark_sent that also clears the retry counter.
Outbox_mark_sent_reset(ob, id) ==
    [ob EXCEPT ![id].status = "sent", ![id].retry_count = 0]

\* Outbox.mark_sent
Outbox_mark_sent(ob, id) == [ob EXCEPT ![id].status = "sent"]

\* The delay read from the table by the new retry_count, not by the one before.
Outbox_delay_by_count(retry_count) ==
    delays[Min(retry_count, Len(delays) - 1) + 1]

\* The backoff of Outbox.mark_failed: delays[min(retry_count - 1, len(delays) - 1)],
\* the Python list being indexed from 0.
Outbox_delay(retry_count) == delays[Min(retry_count - 1, Len(delays) - 1) + 1]

\* mark_failed with the ceiling compared by > where the code has >=.
Outbox_mark_failed_late(ob, id) ==
    LET retry_count == ob[id].retry_count + 1
    IN  IF retry_count > MAX_RETRIES
        THEN [ob EXCEPT ![id].status = "failed", ![id].retry_count = retry_count]
        ELSE [ob EXCEPT ![id].retry_count = retry_count,
                        ![id].next_retry_at = Outbox_delay(retry_count)]

\* Outbox.mark_failed
Outbox_mark_failed(ob, id) ==
    LET retry_count == ob[id].retry_count + 1
    IN  IF retry_count >= MAX_RETRIES
        THEN [ob EXCEPT ![id].status = "failed", ![id].retry_count = retry_count]
        ELSE [ob EXCEPT ![id].retry_count = retry_count,
                        ![id].next_retry_at = Outbox_delay(retry_count)]

\* ------------------------------------------------------------- the relay
\* What the transport did with an outbox row in the drainer: the copy_message
\* calls that returned and those that raised.
NoAttempts == [sent |-> 0, failed |-> 0]

\* The stores and the two chats as one value, threaded through the steps of a
\* handler.
World ==
    [chats |-> chats, outbox |-> outbox, sent_messages |-> sent_messages,
     group |-> group, inbox |-> inbox, nextTopic |-> nextTopic,
     attempts |-> attempts]

\* A pruning that keeps the last 100 rows of the table, whoever's they are.
save_message_mapping_global(sm, u, topic_msg_id, user_msg_id) ==
    LET all == Append(sm, [user_id |-> u, topic_msg_id |-> topic_msg_id,
                           user_msg_id |-> user_msg_id])
    IN  IF Len(all) > SENT_KEEP THEN SubSeq(all, Len(all) - SENT_KEEP + 1, Len(all))
        ELSE all

\* save_message_mapping: insert, then keep the last 100 rows of the user.
save_message_mapping(sm, u, topic_msg_id, user_msg_id) ==
    LET all == Append(sm, [user_id |-> u, topic_msg_id |-> topic_msg_id,
                           user_msg_id |-> user_msg_id])
        mine == SelectSeq(OutboxIds(all), LAMBDA i : all[i].user_id = u)
        drop == IF Len(mine) > SENT_KEEP
                THEN {mine[k] : k \in 1..(Len(mine) - SENT_KEEP)}
                ELSE {}
        kept == SelectSeq(OutboxIds(all), LAMBDA i : i \notin drop)
    IN  [k \in 1..Len(kept) |-> all[kept[k]]]

\* create_topic after create_forum_topic returned: Chat.create with the new
\* thread id.  (When create_forum_topic raises, create_topic raises with no
\* effect; the callers model that case.)
create_topic(w, u) ==
    [w EXCEPT !.chats = Chat_create(w.chats, u, w.nextTopic),
              !.nextTopic = w.nextTopic + 1]

\* forward_to_topic: ok is the result of copy_message.  Returns the world; the
\* function's own result (True, False) is ok.
forward_to_topic(w, m, topic_id, u, ok) ==
    IF ok
    THEN [w EXCEPT !.group = Append(w.group, [message_id |-> m, topic_id |-> topic_id]),
                   !.chats = Chat_new_message(w.chats, u)]
    ELSE [w EXCEPT !.outbox = Outbox_add(w.outbox, "to_topic", u, SUPPORT_GROUP_ID,
                                         m, topic_id),
                   !.attempts = Append(w.attempts, NoAttempts)]

\* forward_to_user: ok is the result of copy_message.  The id of the delivered
\* message is its position in what the bot delivered.
forward_to_user(w, m, u, topic_id, ok) ==
    IF ok
    THEN [w EXCEPT !.inbox = Append(w.inbox, [user |-> u, message_id |-> m]),
                   !.sent_messages = save_message_mapping(w.sent_messages, u, m,
                                                          Len(w.inbox) + 1),
                   !.chats = Chat_mark_answered(w.chats, u)]
    ELSE [w EXCEPT !.outbox = Outbox_add(w.outbox, "to_user", SUPPORT_GROUP_ID, u,
                                         m, topic_id),
                   !.attempts = Append(w.attempts, NoAttempts)]

\* The results of the transport calls of one handle_user.
UserOutcomes ==
    [create1 : BOOLEAN, welcome : BOOLEAN, copy1 : BOOLEAN,
     create2 : BOOLEAN, copy2 : BOOLEAN]

\* handle_user for message m of user u (u records no sequence).  The result is
\* the world and whether the handler raised.
handle_user(w, u, m, o) ==
    LET chat == Chat_get(w.chats, u)
        fresh == ~chat.exists \/ chat.is_archived = 1
        w1 == IF fresh THEN create_topic(w, u) ELSE w
        w2 == forward_to_topic(w1, m, w1.chats[u].topic_id, u, o.copy1)
        w3 == create_topic(w2, u)
        w4 == forward_to_topic(w3, m, w3.chats[u].topic_id, u, o.copy2)
    IN  IF fresh /\ ~o.create1 THEN [w |-> w, raised |-> TRUE]
        ELSE IF fresh /\ ~o.welcome THEN [w |-> w1, raised |-> TRUE]
        ELSE IF o.copy1 THEN [w |-> w2, raised |-> FALSE]
        ELSE IF ~o.create2 THEN [w |-> w2, raised |-> TRUE]
        ELSE [w |-> w4, raised |-> FALSE]

\* handle_admin for staff message m posted in thread t (not a bot command).
handle_admin(w, t, m, ok) ==
    LET u == Chat_get_by_topic(w.chats, t)
    IN  IF u = 0 THEN w ELSE forward_to_user(w, m, u, t, ok)

\* A drainer that marks the row sent whatever copy_message did.
RECURSIVE process_items_mark_always(_, _, _, _)
process_items_mark_always(w, pending, res, k) ==
    IF k > Len(pending) THEN w
    ELSE LET id == pending[k]
             item == w.outbox[id]
             sent == IF item.direction = "to_topic"
                     THEN [w EXCEPT !.group = Append(w.group,
                               [message_id |-> item.message_id,
                                topic_id |-> item.topic_id]),
                             !.outbox = Outbox_mark_sent(w.outbox, id),
                             !.attempts[id].sent = @ + 1]
                     ELSE [w EXCEPT !.inbox = Append(w.inbox,
                               [user |-> item.to_chat_id,
                                message_id |-> item.message_id]),
                             !.outbox = Outbox_mark_sent(w.outbox, id),
                             !.attempts[id].sent = @ + 1]
             failed == [w EXCEPT !.outbox = Outbox_mark_sent(w.outbox, id),
                                 !.attempts[id].failed = @ + 1]
         IN  process_items_mark_always(IF res[k] THEN sent ELSE failed,
                                       pending, res, k + 1)

\* A drainer whose loop ends at the first copy that raises.
RECURSIVE process_items_stop(_, _, _, _)
process_items_stop(w, pending, res, k) ==
    IF k > Len(pending) THEN w
    ELSE LET id == pending[k]
             item == w.outbox[id]
             sent == IF item.direction = "to_topic"
                     THEN [w EXCEPT !.group = Append(w.group,
                               [message_id |-> item.message_id,
                                topic_id |-> item.topic_id]),
                             !.outbox = Outbox_mark_sent(w.outbox, id),
                             !.attempts[id].sent = @ + 1]
                     ELSE [w EXCEPT !.inbox = Append(w.inbox,
                               [user |-> item.to_chat_id,
                                message_id |-> item.message_id]),
                             !.outbox = Outbox_mark_sent(w.outbox, id),
                             !.attempts[id].sent = @ + 1]
             failed == [w EXCEPT !.outbox = Outbox_mark_failed(w.outbox, id),
                                 !.attempts[id].failed = @ + 1]
         IN  IF res[k] THEN process_items_stop(sent, pending, res, k + 1)
             ELSE failed

\* One pass of the loop of job_process_outbox over the rows get_pending
\* returned: res[k] is the result of copy_message for the k-th row.
RECURSIVE process_items(_, _, _, _)
process_items(w, pending, res, k) ==
    IF k > Len(pending) THEN w
    ELSE LET id == pending[k]
             item == w.outbox[id]
             sent == IF item.direction = "to_topic"
                     THEN [w EXCEPT !.group = Append(w.group,
                               [message_id |-> item.message_id,
                                topic_id |-> item.topic_id]),
                             !.outbox = Outbox_mark_sent(w.outbox, id),
                             !.attempts[id].sent = @ + 1]
                     ELSE [w EXCEPT !.inbox = Append(w.inbox,
                               [user |-> item.to_chat_id,
                                message_id |-> item.message_id]),
                             !.outbox = Outbox_mark_sent(w.outbox, id),
                             !.attempts[id].sent = @ + 1]
             failed == [w EXCEPT !.outbox = Outbox_mark_failed(w.outbox, id),
                                 !.attempts[id].failed = @ + 1]
         IN  process_items(IF res[k] THEN sent ELSE failed, pending, res, k + 1)

\* job_process_outbox
job_process_outbox(w, res) == process_items(w, Outbox_get_pending(w.outbox), res, 1)

\* ------------------------------------------------- the read-side queries
\* Chat.get_unread, as the set of its users (status='unread', is_archived=0,
\* snoozed_until NULL or passed).
Chat_get_unread(c) ==
    {u \in Users : /\ c[u].exists
                   /\ c[u].status = "unread"
                   /\ c[u].is_archived = 0
                   /\ (c[u].snoozed_until = NULL \/ c[u].snoozed_until <= 0)}

\* A rank that puts vip before urgent.
Priority_rank_vip_first(p) ==
    IF p = "vip" THEN 0 ELSE IF p = "urgent" THEN 1 ELSE 2

\* CASE priority WHEN 'urgent' THEN 0 WHEN 'vip' THEN 1 ELSE 2 END
Priority_rank(p) ==
    IF p = "urgent" THEN 0 ELSE IF p = "vip" THEN 1 ELSE 2

\* Row u sorts before row v under ORDER BY rank, last_message_at DESC (the
\* younger message first; last_message_at is an age here).  Rows equal in both
\* come in the order of their user_id.
Unread_before(c, u, v) ==
    \/ Priority_rank(c[u].priority) < Priority_rank(c[v].priority)
    \/ /\ Priority_rank(c[u].priority) = Priority_rank(c[v].priority)
       /\ \/ c[u].last_message_at < c[v].last_message_at
          \/ c[u].last_message_at = c[v].last_message_at /\ u < v

\* Chat.get_unread with its order: the list of user ids.
Chat_get_unread_list(c) ==
    LET S == Chat_get_unread(c)
    IN  [k \in 1..Cardinality(S) |->
            CHOOSE u \in S :
               Cardinality({v \in S : Unread_before(c, v, u)}) = k - 1]

\* All conversations, archived or not.
Chat_get_all(c) == {u \in Users : c[u].exists}

\* Chat.get_all_active, as the set of its users.
Chat_get_all_active(c) == {u \in Users : c[u].exists /\ c[u].is_archived = 0}

\* The buckets with the urgent boundary exclusive.
Followup_bucket_exclusive(c, u) ==
    LET row == c[u]
        age == row.last_reply_at
        T == (IF row.priority = "vip" THEN FOLLOWUP_HOURS_VIP
              ELSE FOLLOWUP_HOURS_NORMAL) * 3600
    IN  IF ~(row.exists /\ row.status = "answered" /\ row.is_archived = 0
             /\ row.followup_done = 0 /\ age # NULL) THEN "none"
        ELSE IF age >= 3 * T THEN "overdue"
        ELSE IF 2 * age > 3 * T THEN "urgent"
        ELSE IF age >= T THEN "due"
        ELSE "none"

\* Chat.get_followups_due: the bucket of user u ("none": in no bucket).  Ages
\* are in seconds, thresholds in hours; h >= 1.5 * T is 2 * h >= 3 * T.
Followup_bucket(c, u) ==
    LET row == c[u]
        age == row.last_reply_at
        T == (IF row.priority = "vip" THEN FOLLOWUP_HOURS_VIP
              ELSE FOLLOWUP_HOURS_NORMAL) * 3600
    IN  IF ~(row.exists /\ row.status = "answered" /\ row.is_archived = 0
             /\ row.followup_done = 0 /\ age # NULL) THEN "none"
        ELSE IF age >= 3 * T THEN "overdue"
        ELSE IF 2 * age >= 3 * T THEN "urgent"
        ELSE IF age >= T THEN "due"
        ELSE "none"

Chat_get_followups_due(c) == {u \in Users : Followup_bucket(c, u) # "none"}

\* A set of users as a sequence, ascending by user id.
RECURSIVE SeqOf(_)
SeqOf(S) ==
    IF S = {} THEN <<>>
    ELSE LET u == CHOOSE x \in S : \A y \in S : x <= y
         IN  <<u>> \o SeqOf(S \ {u})

\* --------------------------------------------- commands and callbacks
\* A text the bot sends to user u (send_message), and a stored message it
\* copies to u (cmd_q): message_id 0, no staff message of a thread stands behind.
send_text(w, u) == [w EXCEPT !.inbox = Append(w.inbox, [user |-> u, message_id |-> 0])]

\* cmd_unread in thread t.
cmd_unread(w, t) ==
    LET u == Chat_get_by_topic(w.chats, t)
    IN  IF u = 0 THEN w ELSE [w EXCEPT !.chats = Chat_mark_unread(w.chats, u)]

\* cmd_unread with a name, outside a conversation's thread: u is the first row
\* of get_all_active whose name matches.
cmd_unread_name(w, u) == [w EXCEPT !.chats = Chat_mark_unread(w.chats, u)]

\* cmd_read in thread t.
cmd_read(w, t) ==
    LET u == Chat_get_by_topic(w.chats, t)
    IN  IF u = 0 THEN w ELSE [w EXCEPT !.chats = Chat_mark_read(w.chats, u)]

\* cmd_vip (p = "vip") and cmd_urgent (p = "urgent") in thread t: a toggle.
cmd_priority(w, t, p) ==
    LET u == Chat_get_by_topic(w.chats, t)
    IN  IF u = 0 THEN w
        ELSE [w EXCEPT !.chats = Chat_set_priority(w.chats, u,
                          IF w.chats[u].priority = p THEN "normal" ELSE p)]

\* cmd_close in thread t (close_forum_topic may raise; the handler ignores it).
cmd_close(w, t) ==
    LET u == Chat_get_by_topic(w.chats, t)
    IN  IF u = 0 THEN w ELSE [w EXCEPT !.chats = Chat_archive(w.chats, u)]

\* cmd_snooze (hours, default 3) and cmd_skip (days * 24, default 3 days).
cmd_snooze(w, t, hours) ==
    LET u == Chat_get_by_topic(w.chats, t)
    IN  IF u = 0 THEN w ELSE [w EXCEPT !.chats = Chat_snooze(w.chats, u, hours)]

\* cmd_done in thread t, the sender recording no sequence.
cmd_done(w, t) ==
    LET u == Chat_get_by_topic(w.chats, t)
    IN  IF u = 0 THEN w ELSE [w EXCEPT !.chats = Chat_done_followup(w.chats, u)]

\* cmd_t with a known template in thread t: ok is the result of send_message.
\* cmd_t with mark_answered moved out of the try block.
cmd_t_unguarded(w, t, ok) ==
    LET u == Chat_get_by_topic(w.chats, t)
    IN  IF u = 0 THEN w
        ELSE IF ~ok THEN [w EXCEPT !.chats = Chat_mark_answered(w.chats, u)]
        ELSE [send_text(w, u) EXCEPT !.chats = Chat_mark_answered(w.chats, u)]

cmd_t(w, t, ok) ==
    LET u == Chat_get_by_topic(w.chats, t)
    IN  IF u = 0 \/ ~ok THEN w
        ELSE [send_text(w, u) EXCEPT !.chats = Chat_mark_answered(w.chats, u)]

\* cmd_q with a stored sequence in thread t: res[k] is the result of the k-th
\* copy_message; mark_answered when at least one copy was sent.
RECURSIVE send_all(_, _, _, _)
send_all(w, u, res, k) ==
    IF k > Len(res) THEN w
    ELSE send_all(IF res[k] THEN send_text(w, u) ELSE w, u, res, k + 1)

cmd_q(w, t, res) ==
    LET u == Chat_get_by_topic(w.chats, t)
        w1 == send_all(w, u, res, 1)
        sent_count == Len(w1.inbox) - Len(w.inbox)
    IN  IF u = 0 THEN w
        ELSE IF sent_count > 0
        THEN [w1 EXCEPT !.chats = Chat_mark_answered(w1.chats, u)]
        ELSE w1

\* cmd_broadcast: the recipients it stages for the target.
cmd_broadcast(c, target) ==
    IF target = "followup" THEN Chat_get_followups_due(c)
    ELSE IF target = "all" THEN Chat_get_all_active(c)
    ELSE {u \in Chat_get_all_active(c) : c[u].priority = "vip"}

\* cmd_confirm: send to every staged recipient; res[k] is the result of the
\* k-th send_message, and each send that returned is followed by mark_answered.
RECURSIVE cmd_confirm(_, _, _, _)
cmd_confirm(w, recipients, res, k) ==
    IF k > Len(recipients) THEN w
    ELSE LET u == recipients[k]
             w1 == [send_text(w, u) EXCEPT !.chats = Chat_mark_answered(w.chats, u)]
         IN  cmd_confirm(IF res[k] THEN w1 ELSE w, recipients, res, k + 1)

\* handle_callback "inbox:readall": mark_read for every row of get_unread.
RECURSIVE callback_readall(_, _)
callback_readall(c, S) ==
    IF S = {} THEN c
    ELSE LET u == CHOOSE x \in S : TRUE
         IN  callback_readall(Chat_mark_read(c, u), S \ {u})

\* handle_callback "vip:<u>" and "urgent:<u>": without a row the new priority
\* is p and set_priority changes nothing.
callback_priority(c, u, p) ==
    Chat_set_priority(c, u, IF c[u].exists /\ c[u].priority = p THEN "normal" ELSE p)

\* handle_callback "tmpl:<name>:<u>": ok is the result of send_message.
callback_tmpl(w, u, ok) ==
    IF ok THEN [send_text(w, u) EXCEPT !.chats = Chat_mark_answered(w.chats, u)]
    ELSE w

\* job_archive: every row with is_archived=0 and last_message_at before the
\* cutoff is set archived and closed.
job_archive(c) ==
    [u \in Users |->
        IF /\ c[u].exists
           /\ c[u].is_archived = 0
           /\ c[u].last_message_at # NULL
           /\ c[u].last_message_at > ARCHIVE_AFTER_DAYS * 86400
        THEN [c[u] EXCEPT !.is_archived = 1, !.status = "closed"]
        ELSE c[u]]

\* The clock moves on by d seconds.
Advance_time(ts, d) == IF ts = NULL THEN NULL ELSE Max(ts - d, 0)
Advance_age(ts, d) == IF ts = NULL THEN NULL ELSE Min(ts + d, AgeCap)

\* ------------------------------------------------------------- actions
Init ==
    /\ chats = [u \in Users |-> NoRow]
    /\ outbox = <<>>
    /\ sent_messages = <<>>
    /\ msgs = <<>>
    /\ group = <<>>
    /\ inbox = <<>>
    /\ nextTopic = 1
    /\ pending_broadcast = <<>>
    /\ channelUp = FALSE
    /\ attempts = <<>>
    /\ inbound_since = [u \in Users |-> 0]
    /\ deletes = {}
    /\ notices = <<>>
    /\ tasks = <<>>
    /\ history = <<>>
    /\ titles = [applied |-> <<>>, cache |-> <<>>, table |-> <<>>]

\* The results a transport call can have now.
Results == IF channelUp THEN {TRUE} ELSE BOOLEAN

TextSends(w) == Cardinality({i \in 1..Len(w.inbox) : w.inbox[i].message_id = 0})

\* The count of inbound messages since the last turn to read or answered, after
\* a step to the rows c in which handle_user delivered a message of each user
\* in `delivered`.
Since(c, delivered) ==
    [u \in Users |->
        IF u \in delivered THEN inbound_since[u] + 1
        ELSE IF c[u].status \in {"read", "answered"} /\ c[u].status # chats[u].status
        THEN 0
        ELSE inbound_since[u]]

\* The step to world w, within the bounds of the model.
Commit(w, delivered) ==
    /\ w.nextTopic <= MaxTopics + 1
    /\ Len(w.outbox) <= MaxOutbox
    /\ TextSends(w) <= MaxSends
    /\ chats' = w.chats
    /\ outbox' = w.outbox
    /\ sent_messages' = w.sent_messages
    /\ group' = w.group
    /\ inbox' = w.inbox
    /\ nextTopic' = w.nextTopic
    /\ attempts' = w.attempts
    /\ inbound_since' = Since(w.chats, delivered)
    /\ UNCHANGED side

\* The threads that exist in the support group.
Threads == 1..(nextTopic - 1)

\* A private-chat message of user u arrives and handle_user runs.
HandleUser(u) ==
    /\ Len(msgs) < MaxMsgs
    /\ \E o \in UserOutcomes :
         /\ \A f \in DOMAIN o : o[f] \in Results
         /\ LET r == handle_user(World, u, Len(msgs) + 1, o)
            IN  /\ Commit(r.w, IF Len(r.w.group) > Len(group) THEN {u} ELSE {})
                /\ msgs' = Append(msgs, [kind |-> "in", user |-> u, topic |-> 0,
                                         raised |-> r.raised])
    /\ UNCHANGED <<pending_broadcast, channelUp>>

\* A staff message is posted in thread t and handle_admin runs.
HandleAdmin(t) ==
    /\ Len(msgs) < MaxMsgs
    /\ \E ok \in Results :
         /\ Commit(handle_admin(World, t, Len(msgs) + 1, ok), {})
         /\ msgs' = Append(msgs, [kind |-> "staff",
                                  user |-> Chat_get_by_topic(chats, t),
                                  topic |-> t, raised |-> FALSE])
    /\ UNCHANGED <<pending_broadcast, channelUp>>

\* A tick of the outbox drainer in which the transport fails no row that has
\* failed `limit` times.
Drain(limit) ==
    /\ LET pending == Outbox_get_pending(outbox)
       IN  \E res \in [1..Len(pending) -> Results] :
             /\ \A k \in 1..Len(pending) :
                  res[k] \/ outbox[pending[k]].retry_count < limit
             /\ Commit(job_process_outbox(World, res), {})
    /\ UNCHANGED <<msgs, pending_broadcast, channelUp>>

\* The drainer where the transport fails a row at most MaxDrainFails times, and
\* where it fails as often as it likes.
JobProcessOutbox == Drain(MaxDrainFails)
JobProcessOutboxAny == Drain(MAX_RETRIES)

Quiet == UNCHANGED <<msgs, pending_broadcast, channelUp>>

CmdUnread(t) == Commit(cmd_unread(World, t), {}) /\ Quiet
CmdUnreadName(u) ==
    /\ u \in Chat_get_all_active(chats)
    /\ Commit(cmd_unread_name(World, u), {})
    /\ Quiet
CmdRead(t) == Commit(cmd_read(World, t), {}) /\ Quiet
CmdVip(t) == Commit(cmd_priority(World, t, "vip"), {}) /\ Quiet
CmdUrgent(t) == Commit(cmd_priority(World, t, "urgent"), {}) /\ Quiet
CmdClose(t) == Commit(cmd_close(World, t), {}) /\ Quiet
CmdSnooze(t) == Commit(cmd_snooze(World, t, 3), {}) /\ Quiet
CmdSkip(t) == Commit(cmd_snooze(World, t, 3 * 24), {}) /\ Quiet
CmdDone(t) == Commit(cmd_done(World, t), {}) /\ Quiet
CmdT(t) == (\E ok \in Results : Commit(cmd_t(World, t, ok), {})) /\ Quiet
CmdQ(t) ==
    /\ \E res \in [1..SeqLen -> Results] : Commit(cmd_q(World, t, res), {})
    /\ Quiet

Others == <<outbox, sent_messages, msgs, group, inbox, nextTopic, channelUp,
            attempts, side>>

CmdBroadcast(target) ==
    /\ cmd_broadcast(chats, target) # {}
    /\ pending_broadcast' = SeqOf(cmd_broadcast(chats, target))
    /\ UNCHANGED <<chats, inbound_since, Others>>

CmdConfirm ==
    /\ pending_broadcast # <<>>
    /\ \E res \in [1..Len(pending_broadcast) -> Results] :
         Commit(cmd_confirm(World, pending_broadcast, res, 1), {})
    /\ pending_broadcast' = <<>>
    /\ UNCHANGED <<msgs, channelUp>>

CmdCancel ==
    /\ pending_broadcast # <<>>
    /\ pending_broadcast' = <<>>
    /\ UNCHANGED <<chats, inbound_since, Others>>

SetChats(c) ==
    /\ chats' = c
    /\ inbound_since' = Since(c, {})
    /\ UNCHANGED <<pending_broadcast, Others>>

CallbackReadAll == SetChats(callback_readall(chats, Chat_get_unread(chats)))
CallbackRead(u) == SetChats(Chat_mark_read(chats, u))
CallbackVip(u) == SetChats(callback_priority(chats, u, "vip"))
CallbackUrgent(u) == SetChats(callback_priority(chats, u, "urgent"))
CallbackFuDone(u) == SetChats(Chat_done_followup(chats, u))
CallbackFuSkip(u) == SetChats(Chat_snooze(chats, u, 72))
CallbackTmpl(u) ==
    /\ \E ok \in Results : Commit(callback_tmpl(World, u, ok), {})
    /\ Quiet

JobArchive == SetChats(job_archive(chats))

\* The clock moves on by d seconds.
Advance(d) ==
    /\ outbox' = [i \in 1..Len(outbox) |->
                   [outbox[i] EXCEPT !.next_retry_at = Advance_time(@, d)]]
    /\ chats' = [u \in Users |->
                   [chats[u] EXCEPT !.last_message_at = Advance_age(@, d),
                                    !.last_reply_at = Advance_age(@, d),
                                    !.snoozed_until = Advance_time(@, d)]]
    /\ UNCHANGED <<sent_messages, msgs, group, inbox, nextTopic,
                   pending_broadcast, channelUp, attempts, inbound_since, side>>

\* Time passes until some waiting outbox row is due.
Waits == {outbox[i].next_retry_at : i \in {j \in 1..Len(outbox) :
             outbox[j].status = "pending" /\ outbox[j].next_retry_at > 0}}
Tick == \E d \in Waits : Advance(d)

\* A silence longer than the archive cutoff.
TickLong == Advance(AgeCap)

\* The channel recovers: from now on every transport call returns.
Recover ==
    /\ ~channelUp
    /\ channelUp' = TRUE
    /\ UNCHANGED <<chats, outbox, sent_messages, msgs, group, inbox, nextTopic,
                   pending_broadcast, attempts, inbound_since, side>>

\* ------------------------------------------------------ specifications
\* The relay: inbound messages, staff replies, the drainer, and the operator's
\* /read and /close.
Next ==
    \/ \E u \in Users : HandleUser(u)
    \/ \E t \in Threads : HandleAdmin(t)
    \/ JobProcessOutbox
    \/ Tick
    \/ \E t \in Threads : CmdRead(t)
    \/ \E t \in Threads : CmdClose(t)

Spec == Init /\ [][Next]_vars

\* Every handler, command, button callback and job that writes status,
\* unread_count or is_archived; the users of OpsUsers write to the bot, the
\* others have no conversation.
OpsUsers == {1}

NextOps ==
    \/ \E u \in OpsUsers : HandleUser(u)
    \/ \E t \in Threads : HandleAdmin(t)
    \/ JobProcessOutbox
    \/ TickLong
    \/ \E t \in Threads : CmdUnread(t)
    \/ \E u \in Users : CmdUnreadName(u)
    \/ \E t \in Threads : CmdRead(t)
    \/ \E t \in Threads : CmdClose(t)
    \/ \E t \in Threads : CmdT(t)
    \/ \E t \in Threads : CmdQ(t)
    \/ \E target \in {"followup", "all", "vip"} : CmdBroadcast(target)
    \/ CmdConfirm
    \/ CmdCancel
    \/ CallbackReadAll
    \/ \E u \in Users : CallbackRead(u)
    \/ \E u \in Users : CallbackTmpl(u)
    \/ JobArchive

SpecOps == Init /\ [][NextOps]_vars

\* The outbox under a transport that fails as often as it likes.
NextOutbox ==
    \/ \E u \in Users : HandleUser(u)
    \/ \E t \in Threads : HandleAdmin(t)
    \/ JobProcessOutboxAny
    \/ Tick

SpecOutbox == Init /\ [][NextOutbox]_vars

\* The same with a channel that may recover for good, the drainer and the clock
\* running on: job_queue.run_repeating fires the drainer every 30 seconds.  The
\* outbox holds LiveOutbox rows.
NextLive ==
    \/ \E u \in Users : HandleUser(u) /\ Len(outbox') <= LiveOutbox
    \/ \E t \in Threads : HandleAdmin(t) /\ Len(outbox') <= LiveOutbox
    \/ JobProcessOutboxAny
    \/ Tick
    \/ Recover

SpecLive ==
    Init /\ [][NextLive]_vars /\ WF_vars(JobProcessOutboxAny) /\ WF_vars(Tick)

\* ------------------------------------------------------- relay properties
\* The inbound messages handled so far.
Inbound == {m \in 1..Len(msgs) : msgs[m].kind = "in"}

\* The copies of message m in the support group, and its outbox rows.
Copies(m) == {i \in 1..Len(group) : group[i].message_id = m}
Entries(m) == {i \in 1..Len(outbox) :
                 outbox[i].direction = "to_topic" /\ outbox[i].message_id = m}

\* C1: whenever handle_user has finished with an inbound message, by returning
\* or by raising, the message has been copied into a support thread or an
\* outbox row with direction to_topic exists for it.
C1_NoSilentLoss == \A m \in Inbound : Copies(m) # {} \/ Entries(m) # {}

\* Message m was copied by handle_user itself: it is in the group and the
\* drainer has copied none of its outbox rows.
DeliveredImmediately(m) ==
    Copies(m) # {} /\ \A i \in Entries(m) : attempts[i].sent = 0

\* C2: every inbound message is copied into the support group at most once,
\* counting the immediate attempt, the retry after thread recreation and the
\* drains, and a message delivered by an immediate attempt has no pending
\* outbox row left.
C2_NoDuplication ==
    \A m \in Inbound :
       /\ Cardinality(Copies(m)) <= 1
       /\ DeliveredImmediately(m) =>
             \A i \in Entries(m) : outbox[i].status # "pending"

\* The status of outbox row i, "none" while the row does not exist.  A pending
\* row has failed fewer than MAX_RETRIES times (C10_RetryCeiling).
Outbox_status(i) == IF i <= Len(outbox) THEN outbox[i].status ELSE "none"

\* C3: a pending outbox row is eventually sent once the channel has recovered
\* for good, the drainer and the clock running on.
C3_DeliveredAfterRecovery ==
    \A i \in 1..LiveOutbox :
       (channelUp /\ Outbox_status(i) = "pending") ~> (Outbox_status(i) = "sent")

\* C3 witness: with the channel recovered, a row the drainer had failed is sent.
C3_Witness ==
    /\ channelUp
    /\ \E i \in 1..Len(outbox) :
         outbox[i].status = "sent" /\ attempts[i].failed > 0

\* The user an outbox row belongs to.
Outbox_user(e) == IF e.direction = "to_topic" THEN e.from_chat_id ELSE e.to_chat_id

\* The rows the drainer marks sent in this step.
Drained == {i \in 1..Len(outbox) :
              outbox[i].status = "pending" /\ outbox'[i].status = "sent"}

\* C4: when the drainer delivers a queued message, the row ends sent and the
\* conversation row makes the transition an immediate successful forward
\* makes: new_message for an inbound message, mark_answered for a staff reply.
C4_RoundTrip ==
    [][\A i \in Drained :
          Drained = {i} =>
             LET u == Outbox_user(outbox[i])
             IN  chats'[u] = IF outbox[i].direction = "to_topic"
                             THEN Chat_new_message(chats, u)[u]
                             ELSE Chat_mark_answered(chats, u)[u]]_vars

\* C5: when every copy of a handler fails, for an inbound message of a user
\* with an active conversation or for a staff reply, the conversation rows are
\* after the handler what they were before; only outbox rows are added.
C5_FailedDeliveryNoMutation ==
    [][(/\ Len(msgs') > Len(msgs)
        /\ Len(outbox') > Len(outbox)
        /\ Len(group') = Len(group)
        /\ Len(inbox') = Len(inbox)
        /\ LET u == msgs'[Len(msgs')].user
           IN  chats[u].exists /\ chats[u].is_archived = 0)
       => chats' = chats]_vars

\* C6: of two inbound messages of one user that were copied or queued, the
\* earlier is copied into the support group before the later.
C6_Ordering ==
    \A m1, m2 \in Inbound :
       (/\ m1 < m2
        /\ msgs[m1].user = msgs[m2].user
        /\ Copies(m1) # {} \/ Entries(m1) # {}
        /\ Copies(m2) # {})
       => \E i \in Copies(m1) : \A j \in Copies(m2) : i < j

\* C7: unread_count is never negative and is the number of inbound messages
\* since the conversation last turned read or answered.
C7_UnreadCount ==
    \A u \in Users :
       chats[u].exists =>
          chats[u].unread_count >= 0 /\ chats[u].unread_count = inbound_since[u]

\* ------------------------------------------------------ status properties
\* An inbound message of user u is handled in this step.
InboundStep(u) ==
    /\ Len(msgs') > Len(msgs)
    /\ msgs'[Len(msgs')].kind = "in"
    /\ msgs'[Len(msgs')].user = u

\* A send or copy to user u returns in this step.
SentStep(u) ==
    \E i \in (Len(inbox) + 1)..Len(inbox') : inbox'[i].user = u

\* The status of user u's conversation becomes st in this step.
Becomes(u, st) ==
    /\ chats'[u].exists
    /\ chats'[u].status = st
    /\ ~chats[u].exists \/ chats[u].status # st

\* The operator's /unread marks user u's conversation in this step.
UnreadCommandStep(u) ==
    \/ \E t \in Threads : Chat_get_by_topic(chats, t) = u /\ CmdUnread(t)
    \/ CmdUnreadName(u)

\* C8 as stated: a conversation becomes unread only by an inbound message of
\* its user, and answered only in a step where a send or copy to that user
\* returned.
C8_AsStated ==
    [][\A u \in Users :
          /\ Becomes(u, "unread") => InboundStep(u)
          /\ Becomes(u, "answered") => SentStep(u)]_vars

\* C8: a conversation becomes unread only by an inbound message of its user or
\* by the operator's /unread, and answered only in a step where a send or copy
\* to that user returned.
C8_StatusDiscipline ==
    [][\A u \in Users :
          /\ Becomes(u, "unread") => InboundStep(u) \/ UnreadCommandStep(u)
          /\ Becomes(u, "answered") => SentStep(u)]_vars

\* C8 witness: a conversation is answered and its user has been sent something.
C8_Witness ==
    \E u \in Users :
       /\ chats[u].exists
       /\ chats[u].status = "answered"
       /\ \E i \in 1..Len(inbox) : inbox[i].user = u

\* C9: an archived conversation stays closed and archived in every step but
\* the handling of a new inbound message of its user.
C9_ClosedTerminal ==
    [][\A u \in Users :
          (/\ chats[u].exists
           /\ chats[u].is_archived = 1
           /\ chats[u].status = "closed"
           /\ ~InboundStep(u))
          => chats'[u].status = "closed" /\ chats'[u].is_archived = 1]_vars

\* ------------------------------------------------------ outbox properties
\* The set of row ids get_pending returns.
PendingIds == {Outbox_get_pending(outbox)[k] :
                 k \in 1..Len(Outbox_get_pending(outbox))}

\* C10: retry_count is between 0 and 10 and is the number of the drainer's
\* failed attempts for the row; a row is failed exactly when that number is
\* 10; get_pending returns no failed row.
C10_RetryCeiling ==
    \A i \in 1..Len(outbox) :
       /\ outbox[i].retry_count \in 0..MAX_RETRIES
       /\ outbox[i].retry_count = attempts[i].failed
       /\ outbox[i].status = "failed" <=> outbox[i].retry_count = MAX_RETRIES
       /\ outbox[i].status = "failed" => i \notin PendingIds

\* C10 witness: a row has failed for the tenth time and is failed.
C10_Witness ==
    \E i \in 1..Len(outbox) :
       /\ outbox[i].status = "failed"
       /\ attempts[i].failed = MAX_RETRIES

\* The backoff table as the spec gives it: the delay after the n-th failure.
BackoffTable(n) ==
    CASE n = 1 -> 5
      [] n = 2 -> 15
      [] n = 3 -> 45
      [] n = 4 -> 120
      [] n = 5 -> 300
      [] n = 6 -> 900
      [] OTHER -> 3600

\* The rows mark_failed leaves pending in this step.
Retried == {i \in 1..Len(outbox) : outbox'[i].status = "pending"
                                   /\ outbox'[i].retry_count = outbox[i].retry_count + 1}

\* C11: the delay mark_failed sets after the n-th failure of a row is the n-th
\* value of the table 5, 15, 45, 120, 300, 900, 3600, the last one from the
\* seventh failure on, and is no shorter than the delay after the failure before.
C11_Backoff ==
    [][\A i \in Retried :
          LET n == outbox'[i].retry_count
          IN  /\ outbox'[i].next_retry_at = BackoffTable(n)
              /\ n > 1 => outbox'[i].next_retry_at >= BackoffTable(n - 1)]_vars

\* C11 witness: a row waits the clamped delay after its ninth failure.
C11_Witness ==
    \E i \in 1..Len(outbox) :
       /\ outbox[i].status = "pending"
       /\ outbox[i].retry_count = MAX_RETRIES - 1
       /\ outbox[i].next_retry_at = 3600

\* What an outbox row is about: everything but its status, retry_count and
\* next_retry_at.
Outbox_payload(e) ==
    [direction |-> e.direction, from_chat_id |-> e.from_chat_id,
     to_chat_id |-> e.to_chat_id, message_id |-> e.message_id,
     topic_id |-> e.topic_id]

\* The change of row i in this step is one the lifecycle allows: none (the wait
\* running down with the clock), pending to sent, pending to pending with one
\* more retry and a retry instant after now, pending to failed.
Outbox_lifecycle_step(i) ==
    LET e == outbox[i]
        f == outbox'[i]
    IN  /\ Outbox_payload(f) = Outbox_payload(e)
        /\ f.retry_count >= e.retry_count
        /\ \/ /\ f.status = e.status
              /\ f.retry_count = e.retry_count
              /\ f.next_retry_at <= e.next_retry_at
           \/ /\ e.status = "pending" /\ f.status = "sent"
              /\ f.retry_count = e.retry_count
           \/ /\ e.status = "pending" /\ f.status = "pending"
              /\ f.retry_count = e.retry_count + 1
              /\ f.next_retry_at > e.next_retry_at
              /\ f.next_retry_at > 0
           \/ /\ e.status = "pending" /\ f.status = "failed"

\* C12: a row is created pending with retry_count 0, no row is removed, and a
\* row only ever goes from pending to sent, from pending to pending with
\* retry_count one higher and a later next_retry_at, or from pending to failed;
\* sent and failed are terminal and retry_count never decreases.
C12_Lifecycle ==
    [][/\ Len(outbox') >= Len(outbox)
       /\ \A i \in 1..Len(outbox) : Outbox_lifecycle_step(i)
       /\ \A i \in (Len(outbox) + 1)..Len(outbox') :
             outbox'[i].status = "pending" /\ outbox'[i].retry_count = 0]_vars

\* C12 witness: one row was sent after failed attempts and another is failed.
C12_Witness ==
    \E i, j \in 1..Len(outbox) :
       /\ outbox[i].status = "sent" /\ outbox[i].retry_count > 0
       /\ outbox[j].status = "failed"

\* --------------------------------------------- storage failures in the relay
\* forward_to_topic where Chat.new_message may raise: the try block holds the
\* copy and the storage calls after it, so a raise after the copy returned
\* also ends in Outbox.add and the result False.  db is the result of
\* Chat.new_message (log_msg catches its own exceptions).
forward_to_topic_db(w, m, topic_id, u, ok, db) ==
    IF ok /\ ~db
    THEN [forward_to_topic(w, m, topic_id, u, FALSE) EXCEPT
             !.group = Append(w.group, [message_id |-> m, topic_id |-> topic_id])]
    ELSE forward_to_topic(w, m, topic_id, u, ok)

\* forward_to_user where Chat.mark_answered may raise (save_message_mapping and
\* log_msg catch their own exceptions): the copy is out and the mapping saved.
forward_to_user_db(w, m, u, topic_id, ok, db) ==
    IF ok /\ ~db
    THEN [forward_to_user(w, m, u, topic_id, FALSE) EXCEPT
             !.inbox = Append(w.inbox, [user |-> u, message_id |-> m]),
             !.sent_messages = save_message_mapping(w.sent_messages, u, m,
                                                    Len(w.inbox) + 1)]
    ELSE forward_to_user(w, m, u, topic_id, ok)

\* handle_user with these failures: db.new1 and db.new2 are the results of
\* Chat.new_message in the first and in the second forward_to_topic.
handle_user_db(w, u, m, o, db) ==
    LET chat == Chat_get(w.chats, u)
        fresh == ~chat.exists \/ chat.is_archived = 1
        w1 == IF fresh THEN create_topic(w, u) ELSE w
        w2 == forward_to_topic_db(w1, m, w1.chats[u].topic_id, u, o.copy1, db.new1)
        w3 == create_topic(w2, u)
        w4 == forward_to_topic_db(w3, m, w3.chats[u].topic_id, u, o.copy2, db.new2)
    IN  IF fresh /\ ~o.create1 THEN [w |-> w, raised |-> TRUE]
        ELSE IF fresh /\ ~o.welcome THEN [w |-> w1, raised |-> TRUE]
        ELSE IF o.copy1 /\ db.new1 THEN [w |-> w2, raised |-> FALSE]
        ELSE IF ~o.create2 THEN [w |-> w2, raised |-> TRUE]
        ELSE [w |-> w4, raised |-> FALSE]

\* handle_admin with these failures.
handle_admin_db(w, t, m, ok, db) ==
    LET u == Chat_get_by_topic(w.chats, t)
    IN  IF u = 0 THEN w ELSE forward_to_user_db(w, m, u, t, ok, db)

HandleUserStorage(u) ==
    /\ Len(msgs) < MaxMsgs
    /\ \E o \in UserOutcomes, db \in [new1 : BOOLEAN, new2 : BOOLEAN] :
         /\ \A f \in DOMAIN o : o[f] \in Results
         /\ LET r == handle_user_db(World, u, Len(msgs) + 1, o, db)
            IN  /\ Commit(r.w, IF Len(r.w.group) > Len(group) THEN {u} ELSE {})
                /\ msgs' = Append(msgs, [kind |-> "in", user |-> u, topic |-> 0,
                                         raised |-> r.raised])
    /\ UNCHANGED <<pending_broadcast, channelUp>>

HandleAdminStorage(t) ==
    /\ Len(msgs) < MaxMsgs
    /\ \E ok \in Results, db \in BOOLEAN :
         /\ Commit(handle_admin_db(World, t, Len(msgs) + 1, ok, db), {})
         /\ msgs' = Append(msgs, [kind |-> "staff",
                                  user |-> Chat_get_by_topic(chats, t),
                                  topic |-> t, raised |-> FALSE])
    /\ UNCHANGED <<pending_broadcast, channelUp>>

\* The relay with a store that may fail inside the forwarding operations.
NextStorage ==
    \/ \E u \in Users : HandleUserStorage(u)
    \/ \E t \in Threads : HandleAdminStorage(t)
    \/ JobProcessOutbox
    \/ Tick

SpecStorage == Init /\ [][NextStorage]_vars

\* C13: an outbox row is created only for a copy that failed.  forward_to_user
\* runs once per staff message, so a step that queues a staff message delivers
\* nothing to the user; forward_to_topic runs at most twice per inbound
\* message, each run copying or queueing, so copies and new rows together are
\* at most two.
C13_EntryOnlyOnFailedCopy ==
    [][Len(msgs') > Len(msgs) =>
          LET rows == Len(outbox') - Len(outbox)
          IN  IF msgs'[Len(msgs')].kind = "staff"
              THEN rows > 0 => Len(inbox') = Len(inbox)
              ELSE (Len(group') - Len(group)) + rows <= 2]_vars

\* ------------------------------------------------- follow-ups and snoozing
\* The clock moves on by StepHours hours, while some conversation's last
\* message or reply is younger than HorizonSteps such steps.
Horizon == HorizonSteps * StepHours * 3600

TickHours ==
    /\ \E u \in Users :
         /\ chats[u].exists
         /\ \/ chats[u].last_message_at < Horizon
            \/ chats[u].last_reply_at # NULL /\ chats[u].last_reply_at < Horizon
    /\ Advance(StepHours * 3600)

\* The conversations over the hours: one user writes, the staff answers, sets
\* priorities, snoozes, skips and completes follow-ups and closes
\* conversations, and the archive job runs.  Only the runs of handle_user and
\* handle_admin that queue nothing are followed here.
NextFollowup ==
    \/ \E u \in OpsUsers : HandleUser(u) /\ outbox' = outbox
    \/ \E t \in Threads : HandleAdmin(t) /\ outbox' = outbox
    \/ TickHours
    \/ TickLong
    \/ \E t \in Threads : CmdVip(t)
    \/ \E t \in Threads : CmdUrgent(t)
    \/ \E t \in Threads : CmdClose(t)
    \/ \E t \in Threads : CmdSnooze(t)
    \/ \E t \in Threads : CmdSkip(t)
    \/ \E t \in Threads : CmdDone(t)
    \/ \E u \in Users : CallbackVip(u)
    \/ \E u \in Users : CallbackUrgent(u)
    \/ \E u \in Users : CallbackFuDone(u)
    \/ \E u \in Users : CallbackFuSkip(u)
    \/ JobArchive

SpecFollowup == Init /\ [][NextFollowup]_vars

\* C14: when the message of a first-time user or of an archived user has been
\* handled, a thread exists and the conversation is unread with unread_count
\* 1; after a delivered staff reply it is answered with unread_count 0 and
\* last_reply_at set; from 24 hours after the reply, with normal priority and
\* nothing else done, it is in the due bucket of get_followups_due.
C14_Scenario ==
    [][\A u \in Users :
          /\ (/\ InboundStep(u)
              /\ ~msgs'[Len(msgs')].raised
              /\ ~chats[u].exists \/ chats[u].is_archived = 1)
             => /\ chats'[u].exists
                /\ chats'[u].topic_id \in 1..(nextTopic' - 1)
                /\ chats'[u].status = "unread"
                /\ chats'[u].unread_count = 1
          /\ (Len(msgs') > Len(msgs) /\ SentStep(u))
             => /\ chats'[u].status = "answered"
                /\ chats'[u].unread_count = 0
                /\ chats'[u].last_reply_at = 0
          /\ (/\ chats'[u].exists
              /\ chats'[u].status = "answered"
              /\ chats'[u].priority = "normal"
              /\ chats'[u].is_archived = 0
              /\ chats'[u].followup_done = 0
              /\ chats'[u].last_reply_at >= 24 * 3600
              /\ chats'[u].last_reply_at < 36 * 3600)
             => Followup_bucket(chats', u) = "due"]_vars

\* The bucket the spec gives a conversation whose last reply is `age` seconds
\* old: thresholds 12, 18 and 36 hours for vip, 24, 36 and 72 hours otherwise.
ExpectedBucket(priority, age) ==
    LET h == 3600
    IN  IF priority = "vip"
        THEN (IF age >= 36 * h THEN "overdue" ELSE IF age >= 18 * h THEN "urgent"
              ELSE IF age >= 12 * h THEN "due" ELSE "none")
        ELSE (IF age >= 72 * h THEN "overdue" ELSE IF age >= 36 * h THEN "urgent"
              ELSE IF age >= 24 * h THEN "due" ELSE "none")

\* C15: get_followups_due puts a conversation that is answered, not archived,
\* not followup_done and has last_reply_at set in the one bucket its hours
\* since the reply select (boundaries inclusive, threshold 12 for vip and 24
\* otherwise), and every other conversation in none.
C15_Bucketing ==
    \A u \in Users :
       LET row == chats[u]
       IN  Followup_bucket(chats, u) =
              IF /\ row.exists
                 /\ row.status = "answered"
                 /\ row.is_archived = 0
                 /\ row.followup_done = 0
                 /\ row.last_reply_at # NULL
              THEN ExpectedBucket(row.priority, row.last_reply_at)
              ELSE "none"

\* C15 witness: a vip conversation answered exactly 18 hours ago is urgent.
C15_Witness ==
    \E u \in Users :
       /\ chats[u].priority = "vip"
       /\ chats[u].last_reply_at = 18 * 3600
       /\ Followup_bucket(chats, u) = "urgent"

\* C16: while a conversation's snoozed_until lies in the future it is neither
\* in get_unread nor in a bucket of get_followups_due.
C16_SnoozedExcluded ==
    \A u \in Users :
       (chats[u].exists /\ chats[u].snoozed_until # NULL /\ chats[u].snoozed_until > 0)
       => /\ u \notin Chat_get_unread(chats)
          /\ Followup_bucket(chats, u) = "none"

\* C17: an archived conversation is returned by none of get_unread,
\* get_all_active and get_followups_due, and so is in no recipient list
\* cmd_broadcast would stage now.
C17_ArchivedExcluded ==
    \A u \in Users :
       (chats[u].exists /\ chats[u].is_archived = 1)
       => /\ u \notin Chat_get_unread(chats)
          /\ u \notin Chat_get_all_active(chats)
          /\ u \notin Chat_get_followups_due(chats)
          /\ \A target \in {"followup", "all", "vip"} :
                u \notin cmd_broadcast(chats, target)

\* C17 witness: an archived conversation was answered long ago and is not
\* followup_done, so that nothing but is_archived keeps it out of the buckets.
C17_Witness ==
    \E u \in Users :
       /\ chats[u].exists
       /\ chats[u].is_archived = 1
       /\ chats[u].status = "answered"
       /\ chats[u].last_reply_at >= 3 * FOLLOWUP_HOURS_NORMAL * 3600
       /\ chats[u].followup_done = 0

\* ------------------------------------------------------- the mapping log
\* get_user_msg_id: the user-side id recorded for (u, topic_msg_id), NULL
\* (None) when no row holds the pair.
get_user_msg_id(sm, u, topic_msg_id) ==
    LET rows == {i \in 1..Len(sm) : sm[i].user_id = u
                                    /\ sm[i].topic_msg_id = topic_msg_id}
    IN  IF rows = {} THEN NULL
        ELSE sm[CHOOSE i \in rows : \A j \in rows : i <= j].user_msg_id

\* The user-side id Telegram gives the copy of the k-th delivered message.
UserSideId(k) == k + MapCalls

\* A staff message is copied to user u and forward_to_user records the pair:
\* the k-th delivery in all has thread-side id k.  inbox keeps the deliveries.
SaveMapping(u) ==
    /\ Len(inbox) < MapCalls
    /\ u = 1 \/ Cardinality({k \in 1..Len(inbox) : inbox[k].user # 1}) < MapOthers
    /\ LET k == Len(inbox) + 1
       IN  /\ inbox' = Append(inbox, [user |-> u, message_id |-> k])
           /\ sent_messages' = save_message_mapping(sent_messages, u, k, UserSideId(k))
    /\ UNCHANGED <<chats, outbox, msgs, group, nextTopic, pending_broadcast,
                   channelUp, attempts, inbound_since, side>>

NextMapping == \E u \in Users : SaveMapping(u)

SpecMapping == Init /\ [][NextMapping]_vars

\* The deliveries to user u in order, and those of them the log must still
\* hold: the last SENT_KEEP.
Recorded(u) == SelectSeq([k \in 1..Len(inbox) |-> k], LAMBDA k : inbox[k].user = u)
Retained(u) ==
    LET rec == Recorded(u)
    IN  {rec[i] : i \in Max(1, Len(rec) - SENT_KEEP + 1)..Len(rec)}

\* The rows of user u in the log, in order.
MappingRows(u) == SelectSeq(sent_messages, LAMBDA r : r.user_id = u)

\* C18: the log holds at most 100 rows per user, namely the user's most recent
\* pairs in the order and with the ids they were recorded with, whatever was
\* pruned for other users; get_user_msg_id returns the recorded id for a
\* retained pair and None for a pruned or never recorded one.
C18_MappingLog ==
    \A u \in Users :
       LET rec == Recorded(u)
           ret == Retained(u)
           rows == MappingRows(u)
           first == Max(1, Len(rec) - SENT_KEEP + 1)
       IN  /\ Len(rows) <= SENT_KEEP
           /\ Len(rows) = Len(rec) - first + 1
           /\ \A i \in 1..Len(rows) :
                 rows[i] = [user_id |-> u, topic_msg_id |-> rec[first + i - 1],
                            user_msg_id |-> UserSideId(rec[first + i - 1])]
           /\ \A k \in 1..(Len(inbox) + 1) :
                 get_user_msg_id(sent_messages, u, k) =
                    IF k \in ret THEN UserSideId(k) ELSE NULL

\* C18 witness: rows of user 1 have been pruned while a row of user 2 that is
\* older than all of user 1's is still there.
C18_Witness ==
    /\ Len(Recorded(1)) > SENT_KEEP
    /\ Len(MappingRows(1)) = SENT_KEEP
    /\ sent_messages[1].user_id = 2

\* STATUS: the status values a chats row can carry.
STATUS == {"unread", "read", "answered", "closed", "followup"}

\* C19: mark_read turns status unread into read and leaves any other status,
\* sets unread_count to 0, and done twice is the same as done once, whatever
\* status and unread_count the conversation's row carries; on a conversation
\* that the program has left read it changes neither status nor unread_count.
C19_MarkRead ==
    \A u \in Users :
       chats[u].exists =>
          /\ \A s \in STATUS, n \in 0..(MaxMsgs + 1) :
                LET from == [chats EXCEPT ![u] = [@ EXCEPT !.status = s, !.unread_count = n]]
                    once == Chat_mark_read(from, u)
                    twice == Chat_mark_read(once, u)
                IN  /\ once[u].status = IF s = "unread" THEN "read" ELSE s
                    /\ once[u].unread_count = 0
                    /\ twice = once
          /\ chats[u].status = "read" =>
                LET once == Chat_mark_read(chats, u)
                IN  /\ once[u].status = chats[u].status
                    /\ once[u].unread_count = chats[u].unread_count

\* C19 witness: mark_read has made a conversation read, and it holds unread
\* messages no more.
C19_Witness ==
    \E u \in Users :
       /\ chats[u].exists
       /\ chats[u].status = "read"
       /\ chats[u].unread_count = 0
       /\ \E m \in Inbound : msgs[m].user = u

\* A handler run for a message of a known conversation ends in this step with
\* nothing relayed: no copy reached the group or the user.
RelayFailedStep ==
    /\ Len(msgs') > Len(msgs)
    /\ msgs'[Len(msgs')].user \in Users
    /\ Len(group') = Len(group)
    /\ Len(inbox') = Len(inbox)

\* The forwarders' half of C20: a handler run that returns with nothing
\* relayed has added an outbox row.
ReturnedFailureQueued ==
    [][RelayFailedStep /\ ~msgs'[Len(msgs')].raised
          => Len(outbox') > Len(outbox)]_vars

\* C20: no run of handle_user or handle_admin raises, and a run that relayed
\* nothing because the transport failed has added an outbox row.
C20_FailureNeverPropagates ==
    [][Len(msgs') > Len(msgs) =>
          /\ ~msgs'[Len(msgs')].raised
          /\ RelayFailedStep => Len(outbox') > Len(outbox)]_vars

\* --------------------------------------------------------- absent targets
\* The /del commands the model follows.
MaxDels == 2

\* The messages staff can reply to in thread t: the staff messages posted in it
\* and the copies of inbound messages that arrived in it.
ThreadMessages(t) ==
    {m \in 1..Len(msgs) :
        \/ msgs[m].kind = "staff" /\ msgs[m].topic = t
        \/ \E i \in 1..Len(group) : group[i].message_id = m /\ group[i].topic_id = t}

\* The answer of the bot to a /del in thread t that replied to reply_to.
Notice(t, reply_to, text) == [topic |-> t, reply_to |-> reply_to, text |-> text]

\* /del that asks for the deletion whether a mapping row was found or not.
cmd_del_blind(c, sm, dl, nt, t, reply_to, ok) ==
    LET u == Chat_get_by_topic(c, t)
        user_msg_id == get_user_msg_id(sm, u, reply_to)
        call == [user_id |-> u, message_id |-> user_msg_id]
    IN  IF u = 0 THEN [deletes |-> dl, notices |-> nt]
        ELSE IF ~ok.del
        THEN [deletes |-> dl \cup {call},
              notices |-> Append(nt, Notice(t, reply_to, "error"))]
        ELSE IF ok.reply
        THEN [deletes |-> dl \cup {call},
              notices |-> Append(nt, Notice(t, reply_to, "deleted"))]
        ELSE [deletes |-> dl \cup {call},
              notices |-> nt \o <<Notice(t, reply_to, "deleted"),
                                  Notice(t, reply_to, "error")>>]

\* cmd_del as a reply to message reply_to of thread t; ok.del and ok.reply are
\* the results of delete_message and of the reply_text that follows it.  A
\* reply_text that raises inside the try block is answered from its except
\* branch.
cmd_del(c, sm, dl, nt, t, reply_to, ok) ==
    LET u == Chat_get_by_topic(c, t)
        user_msg_id == get_user_msg_id(sm, u, reply_to)
        call == [user_id |-> u, message_id |-> user_msg_id]
    IN  IF u = 0 THEN [deletes |-> dl, notices |-> nt]
        ELSE IF user_msg_id = NULL
        THEN [deletes |-> dl,
              notices |-> Append(nt, Notice(t, reply_to, "not_found"))]
        ELSE IF ~ok.del
        THEN [deletes |-> dl \cup {call},
              notices |-> Append(nt, Notice(t, reply_to, "error"))]
        ELSE IF ok.reply
        THEN [deletes |-> dl \cup {call},
              notices |-> Append(nt, Notice(t, reply_to, "deleted"))]
        ELSE [deletes |-> dl \cup {call},
              notices |-> nt \o <<Notice(t, reply_to, "deleted"),
                                  Notice(t, reply_to, "error")>>]

\* Staff reply to message reply_to of thread t with /del.
CmdDel(t, reply_to) ==
    /\ Len(notices) < MaxDels
    /\ \E ok \in [del : Results, reply : Results] :
         LET r == cmd_del(chats, sent_messages, deletes, notices, t, reply_to, ok)
         IN  /\ deletes' = r.deletes
             /\ notices' = r.notices
    /\ UNCHANGED <<chats, outbox, sent_messages, msgs, group, inbox, nextTopic,
                   pending_broadcast, channelUp, attempts, inbound_since, tasks,
                   history, titles>>

\* The relay with /del and with the name command and the buttons that carry a
\* user id; the users outside OpsUsers have no conversation.
NextDel ==
    \/ \E u \in OpsUsers : HandleUser(u)
    \/ \E t \in Threads : HandleAdmin(t)
    \/ JobProcessOutbox
    \/ Tick
    \/ \E t \in Threads : \E k \in ThreadMessages(t) : CmdDel(t, k)
    \/ \E u \in Users : CmdUnreadName(u)
    \/ \E u \in Users : CallbackRead(u)
    \/ \E u \in Users : CallbackVip(u)
    \/ \E u \in Users : CallbackFuDone(u)
    \/ \E u \in Users : CallbackFuSkip(u)

SpecDel == Init /\ [][NextDel]_vars

\* The Chat mutations that take a user id alone, applied to user u.
ChatMutations(c, u) ==
    {Chat_new_message(c, u), Chat_mark_answered(c, u), Chat_mark_read(c, u),
     Chat_mark_unread(c, u), Chat_set_priority(c, u, "vip"),
     Chat_set_priority(c, u, "urgent"), Chat_set_priority(c, u, "normal"),
     Chat_archive(c, u), Chat_snooze(c, u, 3), Chat_snooze(c, u, 72),
     Chat_done_followup(c, u)}

\* A /del was answered in this step, and the message it replied to has no
\* mapping row.
DelUnmappedStep ==
    /\ Len(notices') > Len(notices)
    /\ LET n == notices'[Len(notices) + 1]
       IN  get_user_msg_id(sent_messages, Chat_get_by_topic(chats, n.topic),
                           n.reply_to) = NULL

\* handle_admin ran in this step for a staff message of a thread that no
\* conversation holds.
OrphanStaffStep ==
    /\ Len(msgs') > Len(msgs)
    /\ msgs'[Len(msgs')].kind = "staff"
    /\ Chat_get_by_topic(chats, msgs'[Len(msgs')].topic) = 0

MaxCrashes == 2

\* job_process_outbox cut off by the end of the process between the
\* copy_message of the k-th row of its batch, which returned, and mark_sent:
\* the rows before it were handled in full, the k-th was copied and its row not
\* written, the rows after it were not reached.
job_process_outbox_crash(w, res, k) ==
    LET pending == Outbox_get_pending(w.outbox)
        before == process_items(w, SubSeq(pending, 1, k - 1), res, 1)
        id == pending[k]
        item == before.outbox[id]
    IN  IF item.direction = "to_topic"
        THEN [before EXCEPT !.group = Append(before.group,
                                [message_id |-> item.message_id,
                                 topic_id |-> item.topic_id]),
                            !.attempts[id].sent = @ + 1]
        ELSE [before EXCEPT !.inbox = Append(before.inbox,
                                [user |-> item.to_chat_id,
                                 message_id |-> item.message_id]),
                            !.attempts[id].sent = @ + 1]

\* The process ends inside a drainer tick between a copy and its mark_sent and
\* is started again: the tables are as committed, PENDING_BROADCAST is empty.
JobProcessOutboxCrash ==
    /\ LET pending == Outbox_get_pending(outbox)
       IN  \E k \in 1..Len(pending) :
             /\ attempts[pending[k]].sent < MaxCrashes
             /\ \E res \in [1..Len(pending) -> Results] :
                  /\ \A j \in 1..Len(pending) :
                       res[j] \/ outbox[pending[j]].retry_count < MaxDrainFails
                  /\ res[k]
                  /\ Commit(job_process_outbox_crash(World, res, k), {})
    /\ pending_broadcast' = <<>>
    /\ UNCHANGED <<msgs, channelUp>>

\* The relay with a drainer that can be cut off.
NextCrash ==
    \/ \E u \in Users : HandleUser(u)
    \/ \E t \in Threads : HandleAdmin(t)
    \/ JobProcessOutbox
    \/ JobProcessOutboxCrash
    \/ Tick

SpecCrash == Init /\ [][NextCrash]_vars

\* A copy made for outbox row i returned in this step.
CopiedStep(i) == attempts'[i].sent > attempts[i].sent

\* C22: a row is sent only when a copy made for it has returned, and its
\* status turns sent only in a step in which such a copy returned; a row whose
\* copy returned and whose mark_sent did not run is pending and due as before,
\* so the next tick selects and copies it again.
C22_SentOnlyAfterCopy ==
    /\ [](\A i \in 1..Len(outbox) :
             outbox[i].status = "sent" => attempts[i].sent >= 1)
    /\ [][\A i \in 1..Len(outbox) :
             /\ outbox[i].status # "sent" /\ outbox'[i].status = "sent"
                   => CopiedStep(i)
             /\ CopiedStep(i) /\ outbox'[i].status # "sent"
                   => /\ outbox'[i] = outbox[i]
                      /\ Outbox_is_due(outbox', i)
                      /\ \E k \in 1..Len(Outbox_get_pending(outbox')) :
                            Outbox_get_pending(outbox')[k] = i]_vars

\* C22 witness: a row is sent that was copied twice, the first copy having been
\* followed by the end of the process.
C22_Witness ==
    \E i \in 1..Len(outbox) : outbox[i].status = "sent" /\ attempts[i].sent = 2

\* ------------------------------------------------ a backlog in the outbox
\* The rows of the backlog beyond one batch of the drainer.
BacklogExtra == 1
BacklogRows == BATCH_LIMIT + BacklogExtra

\* The transport is down for a whole handle_user: the copy fails and the
\* create_forum_topic of the retry raises.
FailedRelay ==
    [create1 |-> TRUE, welcome |-> TRUE, copy1 |-> FALSE, create2 |-> FALSE,
     copy2 |-> FALSE]

\* The world after handle_user has run for the messages 1..m of user 1, from
\* the empty tables, the first of them in a working moment of create_topic and
\* all of them with the outcomes of FailedRelay: create_topic has made thread
\* 1 and the row, every forward_to_topic has queued its message for thread 1,
\* and no retry has made a second thread.
Backlog(m) ==
    IF m = 0
    THEN [chats |-> [u \in Users |-> NoRow], outbox |-> <<>>,
          sent_messages |-> <<>>, group |-> <<>>, inbox |-> <<>>,
          nextTopic |-> 1, attempts |-> <<>>]
    ELSE [chats |-> Chat_create([u \in Users |-> NoRow], 1, 1),
          outbox |-> [k \in 1..m |->
                        Outbox_add(<<>>, "to_topic", 1, SUPPORT_GROUP_ID, k, 1)[1]],
          sent_messages |-> <<>>, group |-> <<>>, inbox |-> <<>>,
          nextTopic |-> 2, attempts |-> [k \in 1..m |-> NoAttempts]]

\* The outage has left BacklogRows rows in the outbox, all of them due.
InitBacklog ==
    LET w == Backlog(BacklogRows)
    IN  /\ chats = w.chats
        /\ outbox = w.outbox
        /\ sent_messages = w.sent_messages
        /\ msgs = [m \in 1..BacklogRows |->
                     [kind |-> "in", user |-> 1, topic |-> 0, raised |-> TRUE]]
        /\ group = w.group
        /\ inbox = w.inbox
        /\ nextTopic = w.nextTopic
        /\ pending_broadcast = <<>>
        /\ channelUp = FALSE
        /\ attempts = w.attempts
        /\ inbound_since = [u \in Users |-> 0]
        /\ deletes = {}
        /\ notices = <<>>
        /\ tasks = <<>>
        /\ history = <<>>
        /\ titles = [applied |-> <<>>, cache |-> <<>>, table |-> <<>>]

\* What the transport does to the n copies of one tick: all return, all raise,
\* or the first raises and the others return.
BatchResults(n) ==
    {[k \in 1..n |-> b] : b \in BOOLEAN} \cup {[k \in 1..n |-> k # 1]}

\* A tick of the drainer over the backlog.
JobProcessOutboxBatch ==
    /\ \E res \in BatchResults(Len(Outbox_get_pending(outbox))) :
         LET w == job_process_outbox(World, res)
         IN  /\ outbox' = w.outbox
             /\ group' = w.group
             /\ inbox' = w.inbox
             /\ attempts' = w.attempts
    /\ UNCHANGED <<chats, sent_messages, msgs, nextTopic, pending_broadcast,
                   channelUp, inbound_since, side>>

NextBacklog ==
    \/ JobProcessOutboxBatch
    \/ Tick

\* job_queue.run_repeating fires the drainer every 30 seconds, and the clock
\* runs on.  The first fairness condition is WF_vars(JobProcessOutboxBatch)
\* with ENABLED written out: a tick changes the outbox exactly when get_pending
\* returns a row.
SpecBacklog ==
    /\ InitBacklog
    /\ [][NextBacklog]_vars
    /\ []<>(Outbox_get_pending(outbox) = <<>>) \/ []<><<JobProcessOutboxBatch>>_vars
    /\ WF_vars(Tick)

\* C23: in the end every outbox row of the backlog is sent or failed, the rows
\* beyond the first batch too, whatever the transport does to the copies.
C23_NoRowPendingForever ==
    <>(\A i \in 1..BacklogRows : Outbox_status(i) \in {"sent", "failed"})

\* C23 witness: a row that stood beyond the batch of 20 has been sent after
\* every row of the first batch was given up.
C23_Witness ==
    /\ \A i \in 1..BATCH_LIMIT : outbox[i].status = "failed"
    /\ \E i \in (BATCH_LIMIT + 1)..Len(outbox) : outbox[i].status = "sent"

\* The rows that are pending and due, and the rows a step has attempted.
Due == {i \in 1..Len(outbox) :
          outbox[i].status = "pending" /\ outbox[i].next_retry_at <= 0}
Tries(a, i) == a[i].sent + a[i].failed
Attempted == {i \in 1..Len(outbox) : Tries(attempts', i) # Tries(attempts, i)}

\* C24: get_pending returns the due pending rows oldest first, cut to the
\* first 20: its result ascends, holds only due rows, holds 20 of them or all,
\* and passes over no due row older than one it holds; a drainer tick attempts
\* exactly the rows get_pending returned at its start, each once, so at most 20
\* and none that was sent, failed or waiting.
C24_PendingBatch ==
    /\ [](LET pending == Outbox_get_pending(outbox)
              got == {pending[k] : k \in 1..Len(pending)}
          IN  /\ \A k \in 1..(Len(pending) - 1) : pending[k] < pending[k + 1]
              /\ got \subseteq Due
              /\ Len(pending) = Min(Cardinality(Due), BATCH_LIMIT)
              /\ \A i \in got : \A j \in Due \ got : i < j)
    /\ [][Attempted # {} =>
             LET pending == Outbox_get_pending(outbox)
             IN  /\ Attempted = {pending[k] : k \in 1..Len(pending)}
                 /\ Cardinality(Attempted) <= BATCH_LIMIT
                 /\ \A i \in Attempted :
                       /\ Tries(attempts', i) = Tries(attempts, i) + 1
                       /\ outbox[i].status = "pending"
                       /\ outbox[i].next_retry_at <= 0]_vars

\* C24 witness: a tick has attempted the 20 oldest rows and not the 21st, which
\* is due, while the oldest row waits for its retry.
C24_Witness ==
    /\ \A i \in 1..BATCH_LIMIT : Tries(attempts, i) = 1
    /\ \E i \in (BATCH_LIMIT + 1)..Len(outbox) : i \in Due /\ Tries(attempts, i) = 0
    /\ outbox[1].status = "pending" /\ outbox[1].next_retry_at > 0

\* C25: in a drainer tick every row get_pending returned is attempted and ends
\* the tick sent, or with its retry_count raised by one, whatever happened to
\* the rows before it.
C25_BatchSurvivesFailure ==
    [][Attempted # {} =>
          LET pending == Outbox_get_pending(outbox)
          IN  \A k \in 1..Len(pending) :
                 LET i == pending[k]
                 IN  /\ Tries(attempts', i) = Tries(attempts, i) + 1
                     /\ \/ /\ outbox'[i].status = "sent"
                           /\ outbox'[i].retry_count = outbox[i].retry_count
                           /\ attempts'[i].sent = attempts[i].sent + 1
                        \/ /\ outbox'[i].status \in {"pending", "failed"}
                           /\ outbox'[i].retry_count = outbox[i].retry_count + 1
                           /\ attempts'[i].failed = attempts[i].failed + 1]_vars

\* C25 witness: in one tick the copy of the oldest row raised and the rows
\* after it in the batch were sent.
C25_Witness ==
    /\ outbox[1].status = "pending"
    /\ outbox[1].retry_count = 1
    /\ attempts[1] = [sent |-> 0, failed |-> 1]
    /\ \A i \in 2..BATCH_LIMIT :
          outbox[i].status = "sent" /\ attempts[i] = [sent |-> 1, failed |-> 0]

\* The row new_message must leave for row r.
AfterNewMessage(r) ==
    [r EXCEPT !.status = "unread", !.unread_count = r.unread_count + 1,
              !.last_message_at = 0, !.followup_stage = 0, !.followup_done = 0,
              !.snoozed_until = NULL]

\* handle_user delivered a message of user u in this step into the thread the
\* conversation already had.
DeliveredStep(u) ==
    /\ InboundStep(u)
    /\ chats[u].exists
    /\ chats[u].is_archived = 0
    /\ nextTopic' = nextTopic
    /\ Len(group') = Len(group) + 1

\* C26: new_message on an existing row, whatever its status, unread_count and
\* follow-up markers, sets status unread, adds 1 to unread_count, sets
\* last_message_at to now, clears followup_stage, followup_done and
\* snoozed_until, and leaves priority, topic_id, last_reply_at and is_archived
\* (and every other row) alone; a delivered inbound message changes the row in
\* just this way.
C26_NewMessage ==
    /\ [](\A u \in Users :
             chats[u].exists =>
                \A s \in STATUS, n \in 0..(MaxMsgs + 1), st \in 0..3, fd \in 0..1 :
                   LET r == [chats[u] EXCEPT !.status = s, !.unread_count = n,
                                             !.followup_stage = st,
                                             !.followup_done = fd]
                       from == [chats EXCEPT ![u] = r]
                       to == Chat_new_message(from, u)
                   IN  /\ to[u].status = "unread"
                       /\ to[u].unread_count = n + 1
                       /\ to[u].last_message_at = 0
                       /\ to[u].followup_stage = 0
                       /\ to[u].followup_done = 0
                       /\ to[u].snoozed_until = NULL
                       /\ to[u].priority = r.priority
                       /\ to[u].topic_id = r.topic_id
                       /\ to[u].last_reply_at = r.last_reply_at
                       /\ to[u].is_archived = r.is_archived
                       /\ to = [from EXCEPT ![u] = AfterNewMessage(r)])
    /\ [][\A u \in Users :
             DeliveredStep(u) => chats' = [chats EXCEPT ![u] = AfterNewMessage(@)]]_vars

\* C26 witness: a second inbound message has reached a conversation that staff
\* had marked vip or urgent.
C26_Witness ==
    \E u \in Users :
       /\ chats[u].exists
       /\ chats[u].status = "unread"
       /\ chats[u].unread_count = 2
       /\ chats[u].priority # "normal"
       /\ chats[u].last_message_at = 0
       /\ chats[u].snoozed_until = NULL

\* The row Chat.create leaves for user u and thread t when the user has the
\* row chats[u], and when the user has none.
Reactivated(u, t) == Chat_create(chats, u, t)[u]
Created(u, t) == Chat_create([chats EXCEPT ![u] = NoRow], u, t)[u]

\* The half of C27 on what the conflict branch writes and keeps: thread id,
\* is_archived 0, status unread, a reset unread counter, priority and the other
\* rows untouched.
UpsertResets ==
    \A u \in Users :
       chats[u].exists =>
          /\ Reactivated(u, nextTopic).exists
          /\ Reactivated(u, nextTopic).topic_id = nextTopic
          /\ Reactivated(u, nextTopic).is_archived = 0
          /\ Reactivated(u, nextTopic).status = "unread"
          /\ Reactivated(u, nextTopic).unread_count <= 1
          /\ Reactivated(u, nextTopic).priority = chats[u].priority
          /\ \A v \in Users \ {u} : Chat_create(chats, u, nextTopic)[v] = chats[v]

\* C27: Chat.create on a user who has a row resets the row as above, and the
\* row it leaves has the status and the unread_count of a row it creates for a
\* user who has none.
C27_Upsert ==
    /\ UpsertResets
    /\ \A u \in Users :
          chats[u].exists =>
             /\ Reactivated(u, nextTopic).status = Created(u, nextTopic).status
             /\ Reactivated(u, nextTopic).unread_count
                   = Created(u, nextTopic).unread_count

\* ------------------------------------------------------ the unread list
\* The clock moves on by StepHours hours, longer than the snooze of /snooze,
\* while some conversation's last message is younger than SnoozeSteps such
\* steps.
SnoozeSteps == 3

TickSnooze ==
    /\ \E u \in Users :
         chats[u].exists /\ chats[u].last_message_at < SnoozeSteps * StepHours * 3600
    /\ Advance(StepHours * 3600)

\* Two users write, staff toggles priorities by button, snoozes and marks
\* read, and the hours pass.  Only the runs of handle_user that queue nothing
\* are followed here.
NextUnread ==
    \/ \E u \in Users : HandleUser(u) /\ outbox' = outbox
    \/ TickSnooze
    \/ \E u \in Users : CallbackVip(u)
    \/ \E u \in Users : CallbackUrgent(u)
    \/ \E t \in Threads : CmdSnooze(t)
    \/ \E u \in Users : CallbackRead(u)
    \/ \E t \in Threads : CmdClose(t)

SpecUnread == Init /\ [][NextUnread]_vars

\* C28: get_unread lists, each once, exactly the rows that are unread, not
\* archived and not snoozed (snoozed_until absent or passed), urgent rows
\* before vip rows before normal rows, and among rows of one priority the row
\* with the younger last message first.
C28_UnreadList ==
    LET l == Chat_get_unread_list(chats)
    IN  /\ \A u \in Users :
             (\E k \in 1..Len(l) : l[k] = u)
                <=> /\ chats[u].exists
                    /\ chats[u].status = "unread"
                    /\ chats[u].is_archived = 0
                    /\ chats[u].snoozed_until \in {NULL, 0}
        /\ \A i, j \in 1..Len(l) : i # j => l[i] # l[j]
        /\ \A i, j \in 1..Len(l) :
              i < j =>
                 LET a == chats[l[i]]
                     b == chats[l[j]]
                     rank == [p \in {"urgent", "vip", "normal"} |->
                                CASE p = "urgent" -> 0 [] p = "vip" -> 1
                                  [] p = "normal" -> 2]
                 IN  /\ rank[a.priority] <= rank[b.priority]
                     /\ a.priority = b.priority
                           => a.last_message_at <= b.last_message_at

\* C28 witness: an urgent row is listed before a vip row whose last message is
\* younger, while both are unread.
C28_Witness ==
    LET l == Chat_get_unread_list(chats)
    IN  /\ Len(l) = 2
        /\ chats[l[1]].priority = "urgent"
        /\ chats[l[2]].priority = "vip"
        /\ chats[l[2]].last_message_at < chats[l[1]].last_message_at

\* ------------------------------------------ runs suspended at their awaits
\* The runs in flight at once, the button presses and the writes followed.
MaxTasks == 2
MaxPresses == 2
MaxWrites == 5

\* A run suspended at an await: pc names the awaited call, topic and chat are
\* the thread id and the row the run read before it, pending is the rest of
\* the batch of a drainer tick.
Task(kind, u, m, pc, topic, chat, pending) ==
    [kind |-> kind, u |-> u, m |-> m, pc |-> pc, topic |-> topic, chat |-> chat,
     pending |-> pending]

\* A committed write: the statement, the user or outbox id, its argument, and
\* the row the writing run had read before its await.
Write(op, u, arg, seen) == [op |-> op, u |-> u, arg |-> arg, seen |-> seen]

\* The result of resuming a run: the tables, the run's next await ("done": it
\* returned or raised), its locals, and the writes it committed.
Resumed(w, pc, topic, chat, raised, log) ==
    [w |-> w, pc |-> pc, topic |-> topic, chat |-> chat, raised |-> raised,
     log |-> log]

\* handle_user up to its first await: create_forum_topic for a new or archived
\* user, else the copy_message of forward_to_topic.
user_begin(c, u, m) ==
    LET chat == Chat_get(c, u)
        fresh == ~chat.exists \/ chat.is_archived = 1
    IN  Task("user", u, m, IF fresh THEN "create1" ELSE "copy1", chat.topic_id,
             chat, <<>>)

\* A forward_to_topic that, when its copy returns, writes back the row the
\* handler had read before the await, with the message counted on it.
user_resume_stale(w, task, ok) ==
    LET u == task.u
        queued == forward_to_topic(w, task.m, task.topic, u, FALSE)
        add == Write("outbox_add", u, queued.outbox[Len(queued.outbox)], task.chat)
        copied == [forward_to_topic(w, task.m, task.topic, u, TRUE)
                     EXCEPT !.chats[u] =
                        [task.chat EXCEPT !.status = "unread",
                                          !.unread_count = @ + 1,
                                          !.last_message_at = 0,
                                          !.followup_stage = 0,
                                          !.followup_done = 0,
                                          !.snoozed_until = NULL]]
        created == create_topic(w, u)
        create == Write("create", u, w.nextTopic, task.chat)
        new == Write("new_message", u, 0, task.chat)
    IN  CASE task.pc = "create1" ->
               IF ok THEN Resumed(created, "welcome", task.topic, task.chat, FALSE,
                                  <<create>>)
               ELSE Resumed(w, "done", task.topic, task.chat, TRUE, <<>>)
          [] task.pc = "welcome" ->
               IF ok THEN Resumed(w, "copy1", w.chats[u].topic_id, w.chats[u],
                                  FALSE, <<>>)
               ELSE Resumed(w, "done", task.topic, task.chat, TRUE, <<>>)
          [] task.pc = "copy1" ->
               IF ok THEN Resumed(copied, "done", task.topic, task.chat, FALSE,
                                  <<new>>)
               ELSE Resumed(queued, "create2", task.topic, task.chat, FALSE,
                            <<add>>)
          [] task.pc = "create2" ->
               IF ok THEN Resumed(created, "copy2", created.chats[u].topic_id,
                                  created.chats[u], FALSE, <<create>>)
               ELSE Resumed(w, "done", task.topic, task.chat, TRUE, <<>>)
          [] task.pc = "copy2" ->
               IF ok THEN Resumed(copied, "done", task.topic, task.chat, FALSE,
                                  <<new>>)
               ELSE Resumed(queued, "done", task.topic, task.chat, FALSE, <<add>>)

\* handle_user from the return of an awaited call (ok: it returned, else it
\* raised) to its next await.  Chat.create and Chat.new_message are statements
\* on the table as it is then; of the row read before the await only the
\* thread id is used, as the target of the copy and in Outbox.add.
user_resume(w, task, ok) ==
    LET u == task.u
        queued == forward_to_topic(w, task.m, task.topic, u, FALSE)
        add == Write("outbox_add", u, queued.outbox[Len(queued.outbox)], task.chat)
        copied == forward_to_topic(w, task.m, task.topic, u, TRUE)
        created == create_topic(w, u)
        create == Write("create", u, w.nextTopic, task.chat)
        new == Write("new_message", u, 0, task.chat)
    IN  CASE task.pc = "create1" ->
               IF ok THEN Resumed(created, "welcome", task.topic, task.chat, FALSE,
                                  <<create>>)
               ELSE Resumed(w, "done", task.topic, task.chat, TRUE, <<>>)
          [] task.pc = "welcome" ->
               IF ok THEN Resumed(w, "copy1", w.chats[u].topic_id, w.chats[u],
                                  FALSE, <<>>)
               ELSE Resumed(w, "done", task.topic, task.chat, TRUE, <<>>)
          [] task.pc = "copy1" ->
               IF ok THEN Resumed(copied, "done", task.topic, task.chat, FALSE,
                                  <<new>>)
               ELSE Resumed(queued, "create2", task.topic, task.chat, FALSE,
                            <<add>>)
          [] task.pc = "create2" ->
               IF ok THEN Resumed(created, "copy2", created.chats[u].topic_id,
                                  created.chats[u], FALSE, <<create>>)
               ELSE Resumed(w, "done", task.topic, task.chat, TRUE, <<>>)
          [] task.pc = "copy2" ->
               IF ok THEN Resumed(copied, "done", task.topic, task.chat, FALSE,
                                  <<new>>)
               ELSE Resumed(queued, "done", task.topic, task.chat, FALSE, <<add>>)

\* handle_admin from the return of the copy_message of forward_to_user.
admin_resume(w, task, ok) ==
    LET r == forward_to_user(w, task.m, task.u, task.topic, ok)
    IN  Resumed(r, "done", task.topic, task.chat, FALSE,
                IF ok THEN <<Write("mark_answered", task.u, 0, task.chat)>>
                ELSE <<Write("outbox_add", task.u, r.outbox[Len(r.outbox)],
                             task.chat)>>)

\* job_process_outbox from the return of the copy_message of the first row
\* left of its batch: mark_sent or mark_failed, then the copy of the next row.
drain_resume(w, task, ok) ==
    LET id == Head(task.pending)
        r == process_items(w, <<id>>, <<ok>>, 1)
    IN  [Resumed(r, IF Len(task.pending) = 1 THEN "done" ELSE "item", task.topic,
                 task.chat, FALSE,
                 <<Write(IF ok THEN "mark_sent" ELSE "mark_failed", id, 0,
                         task.chat)>>)
           EXCEPT !.chat = task.chat]

resume(w, task, ok) ==
    IF task.kind = "user" THEN user_resume(w, task, ok)
    ELSE IF task.kind = "admin" THEN admin_resume(w, task, ok)
    ELSE drain_resume(w, task, ok)

\* The tasks with the i-th removed.
Without(ts, i) == SubSeq(ts, 1, i - 1) \o SubSeq(ts, i + 1, Len(ts))

RunFrame == UNCHANGED <<pending_broadcast, channelUp, deletes, notices, titles>>

\* A private message of user u arrives; handle_user runs to its first await.
UserBegin(u) ==
    /\ Len(msgs) < MaxMsgs
    /\ Len(tasks) < MaxTasks
    /\ tasks' = Append(tasks, user_begin(chats, u, Len(msgs) + 1))
    /\ msgs' = Append(msgs, [kind |-> "in", user |-> u, topic |-> 0,
                             raised |-> FALSE])
    /\ UNCHANGED <<chats, outbox, sent_messages, group, inbox, nextTopic,
                   attempts, inbound_since, history>>
    /\ RunFrame

\* A staff message is posted in thread t; handle_admin runs to the copy of
\* forward_to_user, or returns when no conversation holds the thread.
AdminBegin(t) ==
    /\ Len(msgs) < MaxMsgs
    /\ Len(tasks) < MaxTasks
    /\ LET u == Chat_get_by_topic(chats, t)
       IN  /\ tasks' = IF u = 0 THEN tasks
                       ELSE Append(tasks, Task("admin", u, Len(msgs) + 1, "copy", t,
                                               chats[u], <<>>))
           /\ msgs' = Append(msgs, [kind |-> "staff", user |-> u, topic |-> t,
                                    raised |-> FALSE])
    /\ UNCHANGED <<chats, outbox, sent_messages, group, inbox, nextTopic,
                   attempts, inbound_since, history>>
    /\ RunFrame

\* The drainer fires: get_pending, then the copy of the first row.
DrainBegin ==
    /\ Len(tasks) < MaxTasks
    /\ Outbox_get_pending(outbox) # <<>>
    /\ tasks' = Append(tasks, Task("drain", 0, 0, "item", 0, NoRow,
                                   Outbox_get_pending(outbox)))
    /\ UNCHANGED <<chats, outbox, sent_messages, msgs, group, inbox, nextTopic,
                   attempts, inbound_since, history>>
    /\ RunFrame

\* The call the i-th run awaits returns or raises, and the run goes on to its
\* next await or to its end.
Resume(i) ==
    /\ \E ok \in Results :
         LET task == tasks[i]
             r == resume(World, task, ok)
             next == [task EXCEPT !.pc = r.pc, !.topic = r.topic, !.chat = r.chat,
                                  !.pending = IF task.kind = "drain"
                                              THEN Tail(task.pending) ELSE <<>>]
         IN  /\ r.w.nextTopic <= MaxTopics + 1
             /\ Len(r.w.outbox) <= MaxOutbox
             /\ chats' = r.w.chats
             /\ outbox' = r.w.outbox
             /\ sent_messages' = r.w.sent_messages
             /\ group' = r.w.group
             /\ inbox' = r.w.inbox
             /\ nextTopic' = r.w.nextTopic
             /\ attempts' = r.w.attempts
             /\ inbound_since' =
                   Since(r.w.chats, IF Len(r.w.group) > Len(group) /\ task.kind = "user"
                                    THEN {task.u} ELSE {})
             /\ tasks' = IF r.pc = "done" THEN Without(tasks, i)
                         ELSE [tasks EXCEPT ![i] = next]
             /\ history' = history \o r.log
             /\ Len(history') <= MaxWrites
             /\ msgs' = IF r.raised THEN [msgs EXCEPT ![task.m].raised = TRUE]
                        ELSE msgs
    /\ RunFrame

\* The presses followed so far.
Presses == Cardinality({k \in 1..Len(history) :
                          history[k].op \in {"toggle", "mark_read"}})

\* A press of the vip or urgent button of user u (p the button): the row is
\* read and set_priority called with no await between them.
PressPriority(u, p) ==
    /\ Presses < MaxPresses
    /\ Len(history) < MaxWrites
    /\ chats' = callback_priority(chats, u, p)
    /\ history' = Append(history, Write("toggle", u, p, chats[u]))
    /\ inbound_since' = Since(chats', {})
    /\ UNCHANGED <<outbox, sent_messages, msgs, group, inbox, nextTopic, attempts,
                   tasks>>
    /\ RunFrame

\* A press of the read button of user u.
PressRead(u) ==
    /\ Presses < MaxPresses
    /\ Len(history) < MaxWrites
    /\ chats' = Chat_mark_read(chats, u)
    /\ history' = Append(history, Write("mark_read", u, 0, chats[u]))
    /\ inbound_since' = Since(chats', {})
    /\ UNCHANGED <<outbox, sent_messages, msgs, group, inbox, nextTopic, attempts,
                   tasks>>
    /\ RunFrame

\* Handlers, button callbacks and drainer ticks interleaved at their awaits.
NextInterleave ==
    \/ \E u \in OpsUsers : UserBegin(u)
    \/ \E t \in Threads : AdminBegin(t)
    \/ DrainBegin
    \/ \E i \in 1..Len(tasks) : Resume(i)
    \/ \E u \in OpsUsers : \E p \in {"vip", "urgent"} : PressPriority(u, p)
    \/ \E u \in OpsUsers : PressRead(u)

SpecInterleave == Init /\ [][NextInterleave]_vars

\* The statement of write e applied to the tables st.
Apply(st, e) ==
    CASE e.op = "create" -> [st EXCEPT !.chats = Chat_create(st.chats, e.u, e.arg)]
      [] e.op = "new_message" -> [st EXCEPT !.chats = Chat_new_message(st.chats, e.u)]
      [] e.op = "mark_answered" ->
            [st EXCEPT !.chats = Chat_mark_answered(st.chats, e.u)]
      [] e.op = "mark_read" -> [st EXCEPT !.chats = Chat_mark_read(st.chats, e.u)]
      [] e.op = "toggle" ->
            [st EXCEPT !.chats = callback_priority(st.chats, e.u, e.arg)]
      [] e.op = "outbox_add" ->
            [st EXCEPT !.outbox = Outbox_add(st.outbox, e.arg.direction,
                                             e.arg.from_chat_id, e.arg.to_chat_id,
                                             e.arg.message_id, e.arg.topic_id)]
      [] e.op = "mark_sent" -> [st EXCEPT !.outbox = Outbox_mark_sent(st.outbox, e.u)]
      [] e.op = "mark_failed" ->
            [st EXCEPT !.outbox = Outbox_mark_failed(st.outbox, e.u)]

\* The tables after the writes of h, one after the other, from empty tables.
Serial(h) ==
    LET st[k \in 0..Len(h)] ==
           IF k = 0 THEN [chats |-> [u \in Users |-> NoRow], outbox |-> <<>>]
           ELSE Apply(st[k - 1], h[k])
    IN  st[Len(h)]

\* C29: with handlers, button callbacks and drainer ticks interleaved at their
\* awaits, chats and outbox are what the committed writes give when applied one
\* after the other in the order of their commits; a new_message adds 1 to the
\* unread_count the row has at the commit, a mark_failed adds 1 to the
\* retry_count the outbox row has then, and a press for a user with a row
\* toggles the priority the row has then, whatever the writing run had read
\* before its await.
C29_NoLostUpdate ==
    /\ [](chats = Serial(history).chats /\ outbox = Serial(history).outbox)
    /\ [][\A k \in (Len(history) + 1)..Len(history') :
             LET e == history'[k]
             IN  /\ e.op = "new_message"
                    => chats'[e.u].unread_count = chats[e.u].unread_count + 1
                       /\ chats'[e.u].priority = chats[e.u].priority
                 /\ e.op = "mark_failed"
                    => outbox'[e.u].retry_count = outbox[e.u].retry_count + 1
                 /\ e.op = "toggle" /\ chats[e.u].exists
                    => chats'[e.u].priority
                          = (IF chats[e.u].priority = e.arg THEN "normal" ELSE e.arg)
                       /\ chats'[e.u].unread_count = chats[e.u].unread_count]_vars

\* C29 witness: two runs of handle_user for one user were suspended together
\* and a priority button was pressed meanwhile: a new_message was committed by
\* a run that had read the row with unread_count 0 and normal priority, and the
\* row counts both messages and has the priority of the press.
C29_Witness ==
    \E k \in 1..Len(history) :
       LET e == history[k]
       IN  /\ e.op = "new_message"
           /\ e.seen.exists
           /\ e.seen.unread_count = 0
           /\ e.seen.priority = "normal"
           /\ chats[e.u].unread_count = 2
           /\ chats[e.u].priority # "normal"
           /\ tasks = <<>>

\* handle_admin ran in this step for a staff message to user u, and
\* save_message_mapping committed the row of its copy.
MappingCommittedStep(u) ==
    /\ Len(msgs') > Len(msgs)
    /\ msgs'[Len(msgs')].kind = "staff"
    /\ msgs'[Len(msgs')].user = u
    /\ get_user_msg_id(sent_messages', u, Len(msgs')) # NULL

\* C30: the writes forward_to_user makes after a copy are committed together
\* or not at all: a run that has committed the mapping row of its message has
\* also committed mark_answered, and has queued nothing for the message.
C30_NoPartialRelayState ==
    [][\A u \in Users :
          MappingCommittedStep(u) =>
             /\ chats'[u] = Chat_mark_answered(chats, u)[u]
             /\ outbox' = outbox]_vars

\* ------------------------------------- job_archive cut at its awaits
\* The SELECT of job_archive: the users whose row has is_archived=0 and a
\* last_message_at before the cutoff, as fetchall returns them.
job_archive_select(c) ==
    SeqOf({u \in Users : /\ c[u].exists
                         /\ c[u].is_archived = 0
                         /\ c[u].last_message_at # NULL
                         /\ c[u].last_message_at > ARCHIVE_AFTER_DAYS * 86400})

\* The UPDATE of job_archive for every user of us: it names the user only.
RECURSIVE job_archive_update(_, _)
job_archive_update(c, us) ==
    IF us = <<>> THEN c
    ELSE job_archive_update(Chat_archive(c, Head(us)), Tail(us))

\* The run of job_archive in flight, if any: pending is the list its SELECT
\* returned and m the number of UPDATEs it has executed and not yet committed.
ArchiveRuns == {i \in 1..Len(tasks) : tasks[i].kind = "archive"}

\* The connection of job_archive holds the write lock of the database from its
\* first UPDATE to its commit.
ArchiveWrites == \E i \in ArchiveRuns : tasks[i].m > 0

\* job_archive fires: the SELECT, then the run is suspended in the
\* close_forum_topic of the first user it returned.
ArchiveBegin ==
    /\ ArchiveRuns = {}
    /\ Len(tasks) < MaxTasks
    /\ job_archive_select(chats) # <<>>
    /\ tasks' = Append(tasks, Task("archive", 0, 0, "close", 0, NoRow,
                                   job_archive_select(chats)))
    /\ UNCHANGED <<chats, outbox, sent_messages, msgs, group, inbox, nextTopic,
                   attempts, inbound_since, history>>
    /\ RunFrame

\* close_forum_topic returns or raises (the run does not tell them apart) and
\* the UPDATE of that user executes; after the last user the run commits.
ArchiveResume(i) ==
    /\ i \in ArchiveRuns
    /\ LET task == tasks[i]
       IN  IF task.m + 1 < Len(task.pending)
           THEN /\ tasks' = [tasks EXCEPT ![i].m = task.m + 1]
                /\ UNCHANGED <<chats, inbound_since>>
           ELSE /\ tasks' = Without(tasks, i)
                /\ chats' = job_archive_update(chats, task.pending)
                /\ inbound_since' = Since(chats', {})
    /\ UNCHANGED <<outbox, sent_messages, msgs, group, inbox, nextTopic, attempts,
                   history>>
    /\ RunFrame

\* An update is handled while no other connection holds the write lock.  (A
\* write that meets the lock waits busy_timeout and raises; those runs are left
\* out.)
HandleUserUnlocked(u) == ~ArchiveWrites /\ HandleUser(u)
HandleAdminUnlocked(t) == ~ArchiveWrites /\ HandleAdmin(t)

\* The relay and the archive job, the job cut at its awaits.
NextArchive ==
    \/ \E u \in Users : HandleUserUnlocked(u)
    \/ \E t \in Threads : HandleAdminUnlocked(t)
    \/ TickLong
    \/ ArchiveBegin
    \/ \E i \in 1..Len(tasks) : ArchiveResume(i)

SpecArchive == Init /\ [][NextArchive]_vars

\* C31: a conversation is set archived by job_archive only if, at the moment of
\* that update, its last_message_at is older than ARCHIVE_AFTER_DAYS days; a
\* conversation that received a message while the run was suspended in
\* close_forum_topic is not archived by that run.
C31_ArchiveOnlyStale ==
    [][\A u \in Users :
          chats[u].is_archived = 0 /\ chats'[u].is_archived = 1 =>
             chats[u].last_message_at > ARCHIVE_AFTER_DAYS * 86400]_vars

\* C32: a conversation's thread id changes only in a run of handle_user for
\* that user in which create_topic made a thread, and the new id is the id of
\* a thread made in that run: the user had no row, or an archived one, or the
\* copy into the old thread failed and was queued; every other operation
\* leaves it unchanged.
C32_ThreadIdFrame ==
    [][\A u \in Users :
          chats'[u].topic_id # chats[u].topic_id =>
             /\ InboundStep(u)
             /\ chats'[u].topic_id \in nextTopic..(nextTopic' - 1)
             /\ \/ ~chats[u].exists
                \/ chats[u].is_archived = 1
                \/ \E i \in (Len(outbox) + 1)..Len(outbox') :
                      /\ outbox'[i].direction = "to_topic"
                      /\ outbox'[i].topic_id = chats[u].topic_id]_vars

\* C32 witness: a user's thread was made anew, and the conversation has since
\* been answered and archived with the thread id of the new thread.
C32_Witness ==
    \E u \in Users :
       /\ chats[u].exists
       /\ chats[u].topic_id = 2
       /\ chats[u].last_reply_at # NULL
       /\ chats[u].is_archived = 1
       /\ \A v \in Users \ {u} : ~chats[v].exists

\* --------------------------------------------------- thread names
\* A thread name is the priority sign, the status sign and the user's name
\* (get_topic_name); the signs of PRIORITY and STATUS differ pairwise and the
\* user's name does not change here, so a name is kept as the pair of keys.
NoName == [p |-> "", s |-> ""]
get_topic_name(chat) == [p |-> chat.priority, s |-> chat.status]

\* The name create_topic gives a new thread: the unread sign and the user's
\* name, which is the name of a conversation with normal priority.
CreatedName == [p |-> "normal", s |-> "unread"]

\* save_topic_cache: the entry of TOPIC_NAME_CACHE is written, then the row of
\* topic_cache; db = FALSE: the INSERT raises, which the function swallows.
save_topic_cache(ti, t, name, db) ==
    [ti EXCEPT !.cache[t] = name, !.table[t] = IF db THEN name ELSE @]

\* update_topic for the row chat: ok is the result of edit_forum_topic, which
\* raises "not modified" when the thread already has the name.
update_topic(ti, chat, ok, db) ==
    IF ~chat.exists THEN ti
    ELSE LET name == get_topic_name(chat)
             t == chat.topic_id
         IN  IF ti.cache[t] = name THEN ti
             ELSE IF ok /\ ti.applied[t] # name
             THEN save_topic_cache([ti EXCEPT !.applied[t] = name], t, name, db)
             ELSE ti

\* The n threads create_topic made in one run of handle_user: each is created
\* with CreatedName, and save_topic_cache is called for it.
RECURSIVE create_titles(_, _, _)
create_titles(ti, n, db) ==
    IF n = 0 THEN ti
    ELSE create_titles([applied |-> Append(ti.applied, CreatedName),
                        cache |-> Append(ti.cache, CreatedName),
                        table |-> Append(ti.table, IF db THEN CreatedName ELSE NoName)],
                       n - 1, db)

\* The tables and the thread names after a handler.
CommitTitled(w, delivered, ti) ==
    /\ w.nextTopic <= MaxTopics + 1
    /\ Len(w.outbox) <= MaxOutbox
    /\ chats' = w.chats
    /\ outbox' = w.outbox
    /\ sent_messages' = w.sent_messages
    /\ group' = w.group
    /\ inbox' = w.inbox
    /\ nextTopic' = w.nextTopic
    /\ attempts' = w.attempts
    /\ inbound_since' = Since(w.chats, delivered)
    /\ titles' = ti
    /\ UNCHANGED <<deletes, notices, tasks, history, pending_broadcast, channelUp>>

\* handle_user with its create_topic calls and its closing update_topic.
HandleUserTitled(u) ==
    /\ Len(msgs) < MaxMsgs
    /\ \E o \in UserOutcomes : \E ok \in Results : \E db \in BOOLEAN :
         /\ \A f \in DOMAIN o : o[f] \in Results
         /\ LET r == handle_user(World, u, Len(msgs) + 1, o)
                made == create_titles(titles, r.w.nextTopic - nextTopic, db)
            IN  /\ CommitTitled(r.w, IF Len(r.w.group) > Len(group) THEN {u} ELSE {},
                                IF r.raised THEN made
                                ELSE update_topic(made, r.w.chats[u], ok, db))
                /\ msgs' = Append(msgs, [kind |-> "in", user |-> u, topic |-> 0,
                                         raised |-> r.raised])

\* handle_admin with the update_topic that follows a delivered reply.
HandleAdminTitled(t) ==
    /\ Len(msgs) < MaxMsgs
    /\ \E copied \in Results : \E ok \in Results : \E db \in BOOLEAN :
         LET u == Chat_get_by_topic(chats, t)
             w == handle_admin(World, t, Len(msgs) + 1, copied)
         IN  /\ CommitTitled(w, {}, IF u # 0 /\ copied
                                    THEN update_topic(titles, w.chats[u], ok, db)
                                    ELSE titles)
             /\ msgs' = Append(msgs, [kind |-> "staff", user |-> u, topic |-> t,
                                      raised |-> FALSE])

\* A command in thread t that writes the row and then calls update_topic with
\* the row read again: cmd_read, and cmd_vip and cmd_urgent.
CmdTitled(t, w) ==
    /\ \E ok \in Results : \E db \in BOOLEAN :
         LET u == Chat_get_by_topic(chats, t)
         IN  CommitTitled(w, {}, IF u # 0 THEN update_topic(titles, w.chats[u], ok, db)
                                 ELSE titles)
    /\ msgs' = msgs

CmdReadTitled(t) == CmdTitled(t, cmd_read(World, t))
CmdVipTitled(t) == CmdTitled(t, cmd_priority(World, t, "vip"))
CmdUrgentTitled(t) == CmdTitled(t, cmd_priority(World, t, "urgent"))

\* The process stops and starts again: load_topic_cache fills the empty
\* TOPIC_NAME_CACHE from table topic_cache.
Restart ==
    /\ titles.cache # titles.table
    /\ titles' = [titles EXCEPT !.cache = titles.table]
    /\ UNCHANGED <<chats, outbox, sent_messages, msgs, group, inbox, nextTopic,
                   pending_broadcast, channelUp, attempts, inbound_since, deletes,
                   notices, tasks, history>>

\* One user's conversation with its thread names, over restarts.
NextTitles ==
    \/ \E u \in OpsUsers : HandleUserTitled(u)
    \/ \E t \in Threads : HandleAdminTitled(t)
    \/ \E t \in Threads : CmdReadTitled(t)
    \/ \E t \in Threads : CmdVipTitled(t)
    \/ \E t \in Threads : CmdUrgentTitled(t)
    \/ Restart

SpecTitles == Init /\ [][NextTitles]_vars

\* C33: in every reachable state a name held in the thread-name cache is the
\* name the bot last applied to that thread, also after a restart that loads
\* the cache from the persisted table.
C33_CachedNameApplied ==
    \A t \in 1..Len(titles.cache) :
       titles.cache[t] # NoName => titles.cache[t] = titles.applied[t]

\* Every user has written once, in a working moment of the transport: each
\* has a row and a thread of their own.  The messages are counted from here.
Delivered ==
    [create1 |-> TRUE, welcome |-> TRUE, copy1 |-> TRUE, create2 |-> TRUE,
     copy2 |-> TRUE]

RECURSIVE Settled(_)
Settled(n) ==
    IF n = 0 THEN Backlog(0) ELSE handle_user(Settled(n - 1), n, 0, Delivered).w

InitRouting ==
    /\ chats = Settled(NumUsers).chats
    /\ nextTopic = Settled(NumUsers).nextTopic
    /\ outbox = <<>>
    /\ sent_messages = <<>>
    /\ msgs = <<>>
    /\ group = <<>>
    /\ inbox = <<>>
    /\ pending_broadcast = <<>>
    /\ channelUp = FALSE
    /\ attempts = <<>>
    /\ inbound_since = [u \in Users |-> 1]
    /\ deletes = {}
    /\ notices = <<>>
    /\ tasks = <<>>
    /\ history = <<>>
    /\ titles = [applied |-> <<>>, cache |-> <<>>, table |-> <<>>]

\* The relay between the staff and users who all have a thread.
SpecRouting == InitRouting /\ [][Next]_vars

\* The entries a step added to the group, to the users' chats and to the
\* outbox.
NewGroup == {group'[i] : i \in (Len(group) + 1)..Len(group')}
NewInbox == {inbox'[i] : i \in (Len(inbox) + 1)..Len(inbox')}
NewOutbox == {outbox'[i] : i \in (Len(outbox) + 1)..Len(outbox')}

\* The threads that are user u's own in a step: the thread of the row before
\* the step and the threads create_topic made for u in the step.
OwnThreads(u) ==
    (IF chats[u].exists THEN {chats[u].topic_id} ELSE {})
       \cup nextTopic..(nextTopic' - 1)

\* C34: no two conversation rows hold the same thread id; a staff message
\* posted in thread T is copied or queued only for the user whose row has
\* thread id T when it is handled; a user's message is copied or queued only
\* for a thread that is the user's own; a thread made for a user becomes the
\* thread of that user's row only; and the drainer delivers every row to the
\* thread and the user stored in it.
C34_RoutingIsolation ==
    /\ [](\A u, v \in Users :
            u # v /\ chats[u].exists /\ chats[v].exists =>
               chats[u].topic_id # chats[v].topic_id)
    /\ [][LET m == Len(msgs')
              e == msgs'[m]
          IN  IF Len(msgs') > Len(msgs) /\ e.kind = "staff"
              THEN /\ NewGroup = {}
                   /\ \A x \in NewInbox :
                        /\ x.message_id = m
                        /\ chats[x.user].exists
                        /\ chats[x.user].topic_id = e.topic
                   /\ \A r \in NewOutbox :
                        /\ r.direction = "to_user"
                        /\ r.message_id = m
                        /\ r.topic_id = e.topic
                        /\ chats[r.to_chat_id].exists
                        /\ chats[r.to_chat_id].topic_id = e.topic
                   /\ \A u \in Users : chats'[u].topic_id = chats[u].topic_id
              ELSE IF Len(msgs') > Len(msgs)
              THEN /\ \A x \in NewInbox : x.user = e.user /\ x.message_id = 0
                   /\ \A g \in NewGroup :
                        g.message_id = m /\ g.topic_id \in OwnThreads(e.user)
                   /\ \A r \in NewOutbox :
                        /\ r.direction = "to_topic"
                        /\ r.message_id = m
                        /\ r.from_chat_id = e.user
                        /\ r.topic_id \in OwnThreads(e.user)
                   /\ chats'[e.user].topic_id # chats[e.user].topic_id =>
                         chats'[e.user].topic_id \in nextTopic..(nextTopic' - 1)
                   /\ \A u \in Users \ {e.user} :
                        chats'[u].topic_id = chats[u].topic_id
              ELSE /\ NewOutbox = {}
                   /\ \A g \in NewGroup :
                        \E i \in 1..Len(outbox) :
                           /\ outbox[i].direction = "to_topic"
                           /\ outbox[i].status = "pending"
                           /\ outbox'[i].status = "sent"
                           /\ g = [message_id |-> outbox[i].message_id,
                                   topic_id |-> outbox[i].topic_id]
                   /\ \A x \in NewInbox :
                        \E i \in 1..Len(outbox) :
                           /\ outbox[i].direction = "to_user"
                           /\ outbox[i].status = "pending"
                           /\ outbox'[i].status = "sent"
                           /\ x = [user |-> outbox[i].to_chat_id,
                                   message_id |-> outbox[i].message_id]
                   /\ \A u \in Users : chats'[u].topic_id = chats[u].topic_id]_vars

\* C34 witness: two users have a thread each, and a staff reply was delivered
\* to each of them, one at once and one by the drainer.
C34_Witness ==
    \E i \in 1..Len(outbox) : \E k, l \in 1..Len(inbox) :
       /\ outbox[i].direction = "to_user"
       /\ outbox[i].status = "sent"
       /\ inbox[k] = [user |-> outbox[i].to_chat_id, message_id |-> outbox[i].message_id]
       /\ inbox[l].user # inbox[k].user
       /\ inbox[l].message_id # 0
       /\ chats[inbox[k].user].topic_id # chats[inbox[l].user].topic_id

\* C35: when the drainer delivers a to_topic row, the copy goes to the thread
\* the conversation of the row's user has at that moment, also when the thread
\* was made anew after the row was queued.
C35_DrainToCurrentThread ==
    [][msgs' = msgs =>
          \A i \in 1..Len(outbox) :
             /\ outbox[i].direction = "to_topic"
             /\ outbox[i].status = "pending"
             /\ outbox'[i].status = "sent"
             => \E g \in NewGroup :
                   /\ g.message_id = outbox[i].message_id
                   /\ g.topic_id = chats[outbox[i].from_chat_id].topic_id]_vars

\* C36: every staff message that was delivered to its user, at once or by a
\* drain of its outbox row, has a row in sent_messages that maps it to the
\* delivered message (fewer than SENT_KEEP rows are kept here, none is pruned).
C36_DeliveredIsMapped ==
    \A k \in 1..Len(inbox) :
       inbox[k].message_id # 0 =>
          get_user_msg_id(sent_messages, inbox[k].user, inbox[k].message_id) # NULL

\* C37: in every reachable state a conversation whose status is read or
\* answered has unread_count 0.
C37_ReadHasNoUnread ==
    \A u \in Users :
       chats[u].exists /\ chats[u].status \in {"read", "answered"} =>
          chats[u].unread_count = 0

\* C37 witness: a conversation that has counted a delivered message is read,
\* after mark_read.
C37_Witness ==
    \E u \in Users :
       /\ chats[u].exists
       /\ chats[u].status = "read"
       /\ chats[u].last_message_at # NULL
       /\ \E k \in 1..Len(group) : msgs[group[k].message_id].user = u

\* C38: in every state in which no handler is in progress, a conversation
\* whose status is unread has unread_count of at least 1.
C38_UnreadHasCount ==
    \A u \in Users :
       chats[u].exists /\ chats[u].status = "unread" => chats[u].unread_count >= 1

\* A staff reply to user u was delivered in this step by handle_admin, which
\* then called mark_answered.
RepliedStep(u) ==
    /\ Len(msgs') > Len(msgs)
    /\ msgs'[Len(msgs')].kind = "staff"
    /\ msgs'[Len(msgs')].user = u
    /\ \E x \in NewInbox : x.user = u /\ x.message_id = Len(msgs')

\* The rows as they are once the follow-up threshold of user u has elapsed
\* since the last reply, when nothing else has happened.
AtThreshold(c, u) ==
    [c EXCEPT ![u].last_reply_at =
        (IF c[u].priority = "vip" THEN FOLLOWUP_HOURS_VIP
         ELSE FOLLOWUP_HOURS_NORMAL) * 3600]

\* C39: each delivered staff reply restarts the follow-up of an open
\* conversation: right after it the conversation is in no bucket of
\* get_followups_due, and once the threshold has elapsed since that reply it
\* is in the due bucket, whatever done mark was set before the reply.
C39_ReplyRestartsFollowup ==
    [][\A u \in Users :
          RepliedStep(u) /\ chats[u].is_archived = 0 =>
             /\ Followup_bucket(chats', u) = "none"
             /\ Followup_bucket(AtThreshold(chats', u), u) = "due"]_vars

\* ------------------------------------------------ single-field operations
\* Two users with a thread each, the staff's replies to them, and the commands
\* and buttons that call set_priority, snooze, done_followup and archive.
NextFrame ==
    \/ \E t \in Threads : HandleAdmin(t)
    \/ \E t \in Threads : CmdVip(t)
    \/ \E t \in Threads : CmdUrgent(t)
    \/ \E u \in Users : CallbackVip(u)
    \/ \E u \in Users : CallbackUrgent(u)
    \/ \E t \in Threads : CmdSnooze(t)
    \/ \E t \in Threads : CmdSkip(t)
    \/ \E u \in Users : CallbackFuSkip(u)
    \/ \E t \in Threads : CmdDone(t)
    \/ \E u \in Users : CallbackFuDone(u)
    \/ \E t \in Threads : CmdClose(t)

SpecFrame == InitRouting /\ [][NextFrame]_vars

\* The step changes at most one row of chats, in no field outside F, and no
\* outbox row and no mapping row.
OnlyFields(F) ==
    /\ \A u \in Users : \A f \in (DOMAIN NoRow) \ F : chats'[u][f] = chats[u][f]
    /\ \A u, v \in Users : chats'[u] # chats[u] /\ chats'[v] # chats[v] => u = v
    /\ outbox' = outbox
    /\ sent_messages' = sent_messages

\* C40: a step of /vip, /urgent or their buttons changes only priority, and
\* to one of normal, vip, urgent; a step of /snooze, /skip or the skip button
\* changes only snoozed_until; a step of /done or the done button only
\* followup_done; a step of /close only is_archived and status; each in one
\* row, with every outbox row and mapping row unchanged.
C40_SingleFieldFrame ==
    /\ [](\A u \in Users : chats[u].priority \in {"normal", "vip", "urgent"})
    /\ [][/\ (\/ \E t \in Threads : CmdVip(t) \/ CmdUrgent(t)
              \/ \E u \in Users : CallbackVip(u) \/ CallbackUrgent(u))
             => OnlyFields({"priority"})
          /\ (\/ \E t \in Threads : CmdSnooze(t) \/ CmdSkip(t)
              \/ \E u \in Users : CallbackFuSkip(u))
             => OnlyFields({"snoozed_until"})
          /\ (\/ \E t \in Threads : CmdDone(t)
              \/ \E u \in Users : CallbackFuDone(u))
             => OnlyFields({"followup_done"})
          /\ (\E t \in Threads : CmdClose(t))
             => OnlyFields({"is_archived", "status"})]_vars

\* C40 witness: one user is vip, snoozed and marked done while the other
\* user's conversation is archived with normal priority, and the outbox and
\* the mapping table hold a row.
C40_Witness ==
    \E u, v \in Users :
       /\ chats[u].priority = "vip"
       /\ chats[u].snoozed_until # NULL
       /\ chats[u].followup_done = 1
       /\ chats[u].is_archived = 0
       /\ chats[v].is_archived = 1
       /\ chats[v].priority = "normal"
       /\ chats[v].followup_done = 0
       /\ outbox # <<>>
       /\ sent_messages # <<>>

====
